---- MODULE Spec2Model ----
(***************************************************************************)
(* PySafeScan: the taint analysers of src/core (FixedTaintAnalyzer,        *)
(* TaintAnalyzer, AdvancedTaintTracker) and the call scanner of            *)
(* src/ast_analyzer (SimplePythonAnalyzer) as one state machine.           *)
(*                                                                         *)
(* Python strings are sequences of one-character strings, so that          *)
(* split('.'), startswith, endswith, `in` and f-string formatting are      *)
(* computed as the code computes them.  Syntax-tree nodes are tuples       *)
(* whose first element is the ast class name.  An ordered dict is a        *)
(* sequence of entries in insertion order.                                 *)
(***************************************************************************)
EXTENDS Integers, Sequences, FiniteSets, TLC

\* ---------------------------------------------------------------- bounds
\* Longest top-level statement list of a source unit.
MaxLen == 2
\* Number of distinct values id(node) may take for an inline source call.
MaxIds == 2
\* Deepest BinOp nesting the recursive handlers get through before the
\* interpreter raises RecursionError (sys.getrecursionlimit, scaled down).
RecursionLimit == 2
\* Number of files of a project directory.
MaxFiles == 2
\* Longest statement list a taint store is built by.
MaxMarks == 3

\* ------------------------------------------------------- string helpers
Range(s) == {s[i] : i \in 1..Len(s)}

Max(S) == CHOOSE m \in S : \A n \in S : n <= m

\* All orders in which the elements of a Python set may be listed.
ListsOfSet(S) ==
  {p \in [1..Cardinality(S) -> S] : \A e \in S : \E i \in DOMAIN p : p[i] = e}

\* str(n) for n >= 0.
RECURSIVE Str(_)
Str(n) ==
  LET digits == <<"0","1","2","3","4","5","6","7","8","9">>
  IN IF n < 10 THEN <<digits[n + 1]>> ELSE Str(n \div 10) \o <<digits[(n % 10) + 1]>>

\* '.'.join(parts)
RECURSIVE Join(_)
Join(parts) ==
  IF parts = <<>> THEN <<>>
  ELSE IF Len(parts) = 1 THEN parts[1]
  ELSE parts[1] \o <<".">> \o Join(Tail(parts))

\* s.split('.')
RECURSIVE Split(_)
Split(s) ==
  LET dots == {i \in 1..Len(s) : s[i] = "."}
  IN IF dots = {} THEN <<s>>
     ELSE LET d == Max(dots)
          IN Split(SubSeq(s, 1, d - 1)) \o <<SubSeq(s, d + 1, Len(s))>>

\* s.startswith(p), s.endswith(p), p in s
StartsWith(s, p) == Len(p) <= Len(s) /\ SubSeq(s, 1, Len(p)) = p
EndsWith(s, p) == Len(p) <= Len(s) /\ SubSeq(s, Len(s) - Len(p) + 1, Len(s)) = p
Contains(s, p) == \E i \in 0..(Len(s) - Len(p)) : SubSeq(s, i + 1, i + Len(p)) = p

\* func_name.split('.')[-1] if '.' in func_name else func_name
BaseName(func_name) ==
  IF "." \in Range(func_name) THEN Split(func_name)[Len(Split(func_name))] ELSE func_name

\* -------------------------------------------------------------- the tree
\* ast nodes.  A statement list (Module.body, FunctionDef.body) is a
\* sequence of statement nodes; all statements of a unit written on one
\* line share that line's number.
Name(id) == <<"Name", id>>
Constant == <<"Constant">>
Attribute(value, attr) == <<"Attribute", value, attr>>
Call(func, args) == <<"Call", func, args>>
BinOp(left, right) == <<"BinOp", left, right>>
Subscript(value) == <<"Subscript", value>>
UnaryOp(operand) == <<"UnaryOp", operand>>
\* An f-string, as the expressions of its FormattedValue parts.
JoinedStr(values) == <<"JoinedStr", values>>
Assign(targets, value) == <<"Assign", targets, value>>
AugAssign(target, value) == <<"AugAssign", target, value>>
Expr(value) == <<"Expr", value>>
FunctionDef(args, body) == <<"FunctionDef", args, body>>
Module(body) == <<"Module", body>>
\* What ast.parse raises on instead of returning a Module.
Unparsable == <<"SyntaxError">>
\* The parent of a top-level statement, and getattr(node, 'parent', None)
\* of a node that was given no parent.
NoNode == <<"None">>

Kind(node) == node[1]
IsName(node) == Kind(node) = "Name"
IsCall(node) == Kind(node) = "Call"
IsAttribute(node) == Kind(node) = "Attribute"
IsAssign(node) == Kind(node) = "Assign"

\* Nesting depth of the BinOp spine the recursive handlers descend.
RECURSIVE Depth(_)
Depth(node) ==
  CASE Kind(node) = "BinOp" -> 1 + Max({Depth(node[2]), Depth(node[3])})
    [] Kind(node) = "Call" -> Max({0} \cup {Depth(node[3][i]) : i \in 1..Len(node[3])})
    [] Kind(node) = "JoinedStr" -> Max({0} \cup {Depth(node[2][i]) : i \in 1..Len(node[2])})
    [] Kind(node) \in {"Subscript", "UnaryOp", "Attribute"} -> Depth(node[2])
    [] OTHER -> 0

\* ------------------------------------------- FixedTaintAnalyzer: tables
\* self.source_functions, in insertion order.
source_functions ==
  << <<<<"i","n","p","u","t">>, "user_input">>, <<<<"r","a","w","_","i","n","p","u","t">>, "user_input">>,
     <<<<"a","r","g","v">>, "command_line">>, <<<<"s","y","s",".","a","r","g","v">>, "command_line">>,
     <<<<"g","e","t">>, "web_input">>, <<<<"p","o","s","t">>, "web_input">>, <<<<"r","e","q","u","e","s","t">>, "web_input">>,
     <<<<"g","e","t","_","d","a","t","a">>, "serialized_data">>, <<<<"g","e","t","_","j","s","o","n">>, "serialized_data">>,
     <<<<"d","a","t","a">>, "serialized_data">>, <<<<"a","r","g","s">>, "web_input">>, <<<<"f","o","r","m">>, "web_input">>,
     <<<<"e","n","v","i","r","o","n">>, "environment">>, <<<<"o","s",".","e","n","v","i","r","o","n">>, "environment">>,
     <<<<"g","e","t","e","n","v">>, "environment">>, <<<<"o","s",".","g","e","t","e","n","v">>, "environment">>,
     <<<<"r","e","a","d">>, "file_input">>, <<<<"o","p","e","n">>, "file_input">>,
     <<<<"r","e","c","v">>, "network">>, <<<<"r","e","c","v","f","r","o","m">>, "network">> >>

\* self.sink_functions, in insertion order.
sink_functions ==
  << <<<<"o","s",".","s","y","s","t","e","m">>, "command_injection">>, <<<<"o","s",".","p","o","p","e","n">>, "command_injection">>,
     <<<<"o","s",".","s","p","a","w","n">>, "command_injection">>, <<<<"s","u","b","p","r","o","c","e","s","s",".","c","a","l","l">>, "command_injection">>,
     <<<<"s","u","b","p","r","o","c","e","s","s",".","P","o","p","e","n">>, "command_injection">>, <<<<"s","u","b","p","r","o","c","e","s","s",".","r","u","n">>, "command_injection">>,
     <<<<"s","u","b","p","r","o","c","e","s","s",".","c","h","e","c","k","_","c","a","l","l">>, "command_injection">>,
     <<<<"s","u","b","p","r","o","c","e","s","s",".","c","h","e","c","k","_","o","u","t","p","u","t">>, "command_injection">>,
     <<<<"e","v","a","l">>, "code_injection">>, <<<<"e","x","e","c">>, "code_injection">>,
     <<<<"c","o","m","p","i","l","e">>, "code_injection">>, <<<<"_","_","i","m","p","o","r","t","_","_">>, "code_injection">>,
     <<<<"p","i","c","k","l","e",".","l","o","a","d","s">>, "deserialization">>, <<<<"p","i","c","k","l","e",".","l","o","a","d">>, "deserialization">>,
     <<<<"y","a","m","l",".","l","o","a","d">>, "deserialization">>, <<<<"y","a","m","l",".","s","a","f","e","_","l","o","a","d">>, "deserialization">>,
     <<<<"m","a","r","s","h","a","l",".","l","o","a","d","s">>, "deserialization">>, <<<<"o","p","e","n">>, "path_traversal">>,
     <<<<"e","x","e","c","f","i","l","e">>, "code_injection">>, <<<<"e","x","e","c","u","t","e">>, "sql_injection">>,
     <<<<"c","u","r","s","o","r",".","e","x","e","c","u","t","e">>, "sql_injection">>,
     <<<<"s","q","l","i","t","e","3",".","c","o","n","n","e","c","t",".","e","x","e","c","u","t","e">>, "sql_injection">> >>

\* self.propagator_functions.
propagator_functions ==
  { <<"f","o","r","m","a","t">>, <<"r","e","p","l","a","c","e">>, <<"s","t","r","i","p">>, <<"s","p","l","i","t">>, <<"j","o","i","n">>, <<"u","p","p","e","r">>, <<"l","o","w","e","r">>,
    <<"e","n","c","o","d","e">>, <<"d","e","c","o","d","e">>, <<"c","a","p","i","t","a","l","i","z","e">>, <<"t","i","t","l","e">>, <<"s","w","a","p","c","a","s","e">>, <<"l","s","t","r","i","p">>,
    <<"r","s","t","r","i","p">>, <<"z","f","i","l","l">>, <<"c","e","n","t","e","r">>, <<"l","j","u","s","t">>, <<"r","j","u","s","t">>, <<"e","x","p","a","n","d","t","a","b","s">>,
    <<"r","e","m","o","v","e","p","r","e","f","i","x">>, <<"r","e","m","o","v","e","s","u","f","f","i","x">> }

\* The value of an Optional result that is None.
None == "None"

\* First entry of an ordered table that satisfies Hit, or None.
FirstHit(table, Hit(_)) ==
  LET hits == {i \in 1..Len(table) : Hit(table[i][1])}
  IN IF hits = {} THEN None ELSE table[CHOOSE i \in hits : \A j \in hits : i <= j][2]

\* ------------------------------------- FixedTaintAnalyzer: classification
RECURSIVE AttributeParts(_)
\* The while loop of _get_full_function_name: attrs outermost first, then
\* the root name when the chain is rooted in a Name.
AttributeParts(current) ==
  IF IsAttribute(current) THEN <<current[3]>> \o AttributeParts(current[2])
  ELSE IF IsName(current) THEN <<current[2]>>
  ELSE <<>>

Reverse(s) == [i \in 1..Len(s) |-> s[Len(s) + 1 - i]]

_get_full_function_name(node) ==
  IF IsName(node) THEN node[2]
  ELSE IF IsAttribute(node) THEN Join(Reverse(AttributeParts(node)))
  ELSE <<>>

_is_source_function(func_name) ==
  FirstHit(source_functions,
           LAMBDA source_func : source_func = BaseName(func_name) \/ source_func = func_name)

\* Faulty variant of _is_sink_function: the partial match compares the
\* module (the first segment) instead of the function (the last one).
_is_sink_function_by_module(func_name) ==
  LET exact == FirstHit(sink_functions, LAMBDA sink_func : sink_func = func_name)
  IN IF exact # None THEN exact
     ELSE FirstHit(sink_functions,
                   LAMBDA sink_func : /\ "." \in Range(sink_func)
                                      /\ Split(sink_func)[1] = Split(func_name)[1])

_is_sink_function(func_name) ==
  LET exact == FirstHit(sink_functions, LAMBDA sink_func : sink_func = func_name)
  IN IF exact # None THEN exact
     ELSE FirstHit(sink_functions,
                   LAMBDA sink_func : Split(sink_func)[Len(Split(sink_func))] = BaseName(func_name))

_is_propagator_function(func_name) == BaseName(func_name) \in propagator_functions

\* ------------------------------------------ FixedTaintAnalyzer: the store
\* TaintType values.
USER_INPUT == "user_input"
COMMAND_LINE == "command_line"
WEB_INPUT == "web_input"
SERIALIZED_DATA == "serialized_data"
PROPAGATED == "propagated"
PARAMETER == "parameter"

\* TaintVariable(name, line, type): sources defaults to the empty list.
TaintVariable(name, line, type) ==
  [name |-> name, line |-> line, type |-> type, sources |-> <<>>]

\* The analysis state of one analyzer instance.  tainted_vars is a dict
\* name -> TaintVariable and propagation_graph a dict name -> list, both
\* kept as entry sequences in insertion order; _direct_source_nodes maps
\* each inline source call (node, with its parent and line) to its
\* placeholder.  raised is set while an exception unwinds the visitors.
\* handled is history: the Call nodes visit_Call was invoked for in this
\* run, in order.
EmptyState ==
  [tainted_vars |-> <<>>, vulnerability_paths |-> <<>>, propagation_graph |-> <<>>,
   direct_source_nodes |-> <<>>, raised |-> FALSE, handled |-> <<>>]

\* name in self.tainted_vars
Tainted(tv, name) == \E i \in 1..Len(tv) : tv[i].name = name

\* self.tainted_vars[name]
Var(tv, name) == tv[CHOOSE i \in 1..Len(tv) : tv[i].name = name]

\* self.tainted_vars[var.name] = var: a new key is appended, an existing
\* key keeps its place and gets the new value.
SetVar(tv, var) ==
  IF Tainted(tv, var.name)
  THEN [i \in 1..Len(tv) |-> IF tv[i].name = var.name THEN var ELSE tv[i]]
  ELSE Append(tv, var)

\* The body of _mark_as_tainted's loop for one source.
MarkOne(st, var_name, source) ==
  IF Tainted(st.tainted_vars, source)
     /\ source \notin Range(Var(st.tainted_vars, var_name).sources)
  THEN LET old == Var(st.tainted_vars, var_name)
           tv == SetVar(st.tainted_vars, [old EXCEPT !.sources = Append(@, source)])
           g0 == st.propagation_graph
           g1 == IF \E i \in 1..Len(g0) : g0[i].key = source
                 THEN g0 ELSE Append(g0, [key |-> source, targets |-> <<>>])
           g2 == [i \in 1..Len(g1) |->
                    IF g1[i].key = source /\ var_name \notin Range(g1[i].targets)
                    THEN [g1[i] EXCEPT !.targets = Append(@, var_name)]
                    ELSE g1[i]]
       IN [st EXCEPT !.tainted_vars = tv, !.propagation_graph = g2]
  ELSE st

RECURSIVE MarkLoop(_, _, _)
MarkLoop(st, var_name, sources) ==
  IF sources = <<>> THEN st
  ELSE MarkLoop(MarkOne(st, var_name, Head(sources)), var_name, Tail(sources))

\* Faulty variant of _mark_as_tainted: a re-marked name gets a new record
\* of the given type and line, its earlier sources lost.
_mark_as_tainted_overwrites(st, var_name, line, taint_type, sources) ==
  MarkLoop([st EXCEPT !.tainted_vars = SetVar(@, TaintVariable(var_name, line, taint_type))],
           var_name, sources)

\* Faulty variant of _mark_as_tainted: a name without a record gets the edge
\* from its first source and no record.
_mark_as_tainted_edges_only(st, var_name, line, taint_type, sources) ==
  IF Tainted(st.tainted_vars, var_name) THEN MarkLoop(st, var_name, sources)
  ELSE IF sources = <<>> THEN st
  ELSE [st EXCEPT !.propagation_graph =
          Append(@, [key |-> sources[1], targets |-> <<var_name>>])]

_mark_as_tainted(st, var_name, line, taint_type, sources) ==
  LET created == IF Tainted(st.tainted_vars, var_name) THEN st
                 ELSE [st EXCEPT !.tainted_vars =
                         Append(@, TaintVariable(var_name, line, taint_type))]
  IN MarkLoop(created, var_name, sources)

RECURSIVE TraceLoop(_, _, _, _)
\* The while loop of _trace_taint_path.
TraceLoop(tv, path, visited, current) ==
  IF Tainted(tv, current) /\ current \notin visited
  THEN LET var == Var(tv, current)
       IN IF var.sources # <<>>
          THEN LET next_var == var.sources[1]
               IN IF next_var \notin (visited \cup {current})
                  THEN TraceLoop(tv, <<next_var>> \o path, visited \cup {current}, next_var)
                  ELSE path
          ELSE path
  ELSE path

\* Faulty variant of _trace_taint_path: the sources are not followed.
_trace_taint_path_no_sources(tv, start_var) ==
  IF ~Tainted(tv, start_var) THEN <<>> ELSE <<start_var>>

_trace_taint_path(tv, start_var) ==
  IF ~Tainted(tv, start_var) THEN <<>>
  ELSE TraceLoop(tv, <<start_var>>, {}, start_var)

RECURSIVE _extract_tainted_from_expr(_, _)
RECURSIVE ExtractEach(_, _)
\* The possible concatenations of the lists extracted from each of nodes.
ExtractEach(nodes, tv) ==
  IF nodes = <<>> THEN {<<>>}
  ELSE {h \o t : h \in _extract_tainted_from_expr(Head(nodes), tv),
                 t \in ExtractEach(Tail(nodes), tv)}

\* The lists the call may return: list(set(tainted)) lists the names in
\* the set's iteration order, which the hash seed decides.
_extract_tainted_from_expr(node, tv) ==
  LET tainted ==
        CASE Kind(node) = "Name" ->
               IF Tainted(tv, node[2]) THEN {<<node[2]>>} ELSE {<<>>}
          [] Kind(node) = "BinOp" -> ExtractEach(<<node[2], node[3]>>, tv)
          [] Kind(node) = "Call" ->
               IF _is_propagator_function(_get_full_function_name(node[2])) /\ node[3] # <<>>
               THEN ExtractEach(node[3] \o <<node[3][1]>>, tv)
               ELSE ExtractEach(node[3], tv)
          [] Kind(node) = "JoinedStr" -> ExtractEach(node[2], tv)
          [] Kind(node) \in {"Subscript", "UnaryOp", "Attribute"} ->
               _extract_tainted_from_expr(node[2], tv)
          [] OTHER -> {<<>>}
  IN UNION {ListsOfSet(Range(t)) : t \in tainted}

\* Whether the recursion of a handler into node exceeds the recursion limit.
TooDeep(node) == Depth(node) > RecursionLimit

\* An exception leaves the handler: nothing after the raise runs.
Raise(st) == [st EXCEPT !.raised = TRUE]

\* Run F on every outcome of S that is not unwinding an exception.
Then(S, F(_)) == UNION {IF s.raised THEN {s} ELSE F(s) : s \in S}

\* --------------------------------------- FixedTaintAnalyzer: the handlers
\* The ids already bound to an inline source call of the tree.
UsedIds(st) == {st.direct_source_nodes[i].id : i \in 1..Len(st.direct_source_nodes)}

\* f"__direct_source_{node.lineno}_{id(node)}"
TempVar(line, id) == <<"_","_","d","i","r","e","c","t","_","s","o","u","r","c","e","_">> \o Str(line) \o <<"_">> \o Str(id)

RECURSIVE SourceTargets(_, _, _, _)
\* The loop over parent.targets that rebinds each Name target.
SourceTargets(st, targets, line, taint_type) ==
  IF targets = <<>> THEN st
  ELSE LET st1 == IF IsName(Head(targets))
                  THEN [st EXCEPT !.tainted_vars =
                          SetVar(@, TaintVariable(Head(targets)[2], line, taint_type))]
                  ELSE st
       IN SourceTargets(st1, Tail(targets), line, taint_type)

\* id(node) is the node's address: any value no other live node has.
_process_source(st, node, parent, line, taint_type) ==
  IF IsAssign(parent)
  THEN {SourceTargets(st, parent[2], line, taint_type)}
  ELSE {[st EXCEPT
           !.tainted_vars = SetVar(@, TaintVariable(TempVar(line, id), line, taint_type)),
           !.direct_source_nodes =
              Append(@, [node |-> node, parent |-> parent, line |-> line, id |-> id,
                         temp_var |-> TempVar(line, id)])]
         : id \in (1..MaxIds) \ UsedIds(st)}

\* Faulty variant of SinkLabel: the argument position counted from one.
SinkLabelOneBased(func_name, i) == func_name \o <<"(","a","r","g">> \o Str(i + 1) \o <<")">>

\* f"{func_name}(arg{i})"
SinkLabel(func_name, i) == func_name \o <<"(","a","r","g">> \o Str(i) \o <<")">>

RECURSIVE SinkVars(_, _, _)
\* The inner loop of _process_sink over the names extracted from one argument.
SinkVars(st, tainted_vars, label) ==
  IF tainted_vars = <<>> THEN st
  ELSE LET path == _trace_taint_path(st.tainted_vars, Head(tainted_vars))
           st1 == IF path # <<>>
                  THEN [st EXCEPT !.vulnerability_paths = Append(@, Append(path, label))]
                  ELSE st
       IN SinkVars(st1, Tail(tainted_vars), label)

RECURSIVE SinkArgs(_, _, _, _)
\* The outer loop of _process_sink, from argument i (0-based) on.
SinkArgs(S, args, func_name, i) ==
  IF i >= Len(args) THEN S
  ELSE SinkArgs(
         Then(S, LAMBDA st :
                   IF TooDeep(args[i + 1]) THEN {Raise(st)}
                   ELSE {SinkVars(st, tainted_vars, SinkLabel(func_name, i))
                          : tainted_vars \in _extract_tainted_from_expr(args[i + 1], st.tainted_vars)}),
         args, func_name, i + 1)

\* Faulty variant of _process_sink: a path for every argument that is a
\* name, with a record or without.
_process_sink_any_name(st, node, func_name) ==
  LET names == SelectSeq([i \in 1..Len(node[3]) |-> i], LAMBDA i : IsName(node[3][i]))
  IN {[st EXCEPT !.vulnerability_paths =
         @ \o [k \in 1..Len(names) |->
                 <<node[3][names[k]][2], SinkLabel(func_name, names[k] - 1)>>]]}

_process_sink(st, node, func_name) == SinkArgs({st}, node[3], func_name, 0)

RECURSIVE MarkTargets(_, _, _, _, _)
\* The loop over the targets of an assignment that marks each Name target.
MarkTargets(st, targets, line, taint_type, sources) ==
  IF targets = <<>> THEN st
  ELSE LET st1 == IF IsName(Head(targets))
                  THEN _mark_as_tainted(st, Head(targets)[2], line, taint_type, sources)
                  ELSE st
       IN MarkTargets(st1, Tail(targets), line, taint_type, sources)

_process_propagator(st, node, parent, line) ==
  LET inputs == IF IsAttribute(node[2]) THEN node[3] \o <<node[2][2]>> ELSE node[3]
  IN IF \E i \in 1..Len(inputs) : TooDeep(inputs[i]) THEN {Raise(st)}
     ELSE {IF tainted_inputs # <<>> /\ IsAssign(parent)
           THEN MarkTargets(st, parent[2], line, PROPAGATED, tainted_inputs)
           ELSE st
            : tainted_inputs \in ExtractEach(inputs, st.tainted_vars)}

visit_Attribute(st, node, parent, grandparent, line) ==
  LET targets ==
        IF node[3] = <<"a","r","g","v">> /\ IsName(node[2]) /\ node[2][2] = <<"s","y","s">>
        THEN IF Kind(parent) = "Subscript"
             THEN IF IsAssign(grandparent) THEN grandparent[2] ELSE <<>>
             ELSE IF IsAssign(parent) THEN parent[2] ELSE <<>>
        ELSE <<>>
      st1 == SourceTargets(st, targets, line, COMMAND_LINE)
      web == /\ IsName(node[2])
             /\ node[2][2] \in {<<"r","e","q","u","e","s","t">>, <<"f","l","a","s","k">>, <<"d","j","a","n","g","o">>}
             /\ node[3] \in {<<"g","e","t","_","d","a","t","a">>, <<"d","a","t","a">>, <<"g","e","t","_","j","s","o","n">>, <<"a","r","g","s">>, <<"f","o","r","m">>}
             /\ ~IsCall(parent)
             /\ IsAssign(parent)
      taint_type == IF node[3] \in {<<"g","e","t","_","d","a","t","a">>, <<"d","a","t","a">>, <<"g","e","t","_","j","s","o","n">>}
                    THEN SERIALIZED_DATA ELSE WEB_INPUT
  IN IF web THEN SourceTargets(st1, parent[2], line, taint_type) ELSE st1

\* The child nodes generic_visit visits, in field order.
Children(node) ==
  CASE Kind(node) = "Call" -> <<node[2]>> \o node[3]
    [] Kind(node) = "BinOp" -> <<node[2], node[3]>>
    [] Kind(node) = "Attribute" -> <<node[2]>>
    [] Kind(node) \in {"Subscript", "UnaryOp", "Expr"} -> <<node[2]>>
    [] Kind(node) = "JoinedStr" -> node[2]
    [] Kind(node) = "Assign" -> node[2] \o <<node[3]>>
    [] Kind(node) = "AugAssign" -> <<node[2], node[3]>>
    [] Kind(node) = "FunctionDef" -> node[3]
    [] Kind(node) = "Module" -> node[2]
    [] OTHER -> <<>>

RECURSIVE visit(_, _, _, _, _)
RECURSIVE VisitEach(_, _, _, _, _)
\* The loop of generic_visit over the child nodes.
VisitEach(S, nodes, parent, grandparent, line) ==
  IF nodes = <<>> THEN S
  ELSE VisitEach(Then(S, LAMBDA st : visit(st, Head(nodes), parent, grandparent, line)),
                 Tail(nodes), parent, grandparent, line)

generic_visit(st, node, parent, line) ==
  IF Kind(node) = "BinOp" /\ TooDeep(node) THEN {Raise(st)}
  ELSE VisitEach({st}, Children(node), node, parent, line)

visit_Call(st0, node, parent, line) ==
  LET st == [st0 EXCEPT !.handled = Append(@, node)]
      func_name == _get_full_function_name(node[2])
      source_type == _is_source_function(func_name)
      afterSource == IF source_type # None
                     THEN _process_source(st, node, parent, line, source_type) ELSE {st}
      afterSink == IF _is_sink_function(func_name) # None
                   THEN Then(afterSource, LAMBDA s : _process_sink(s, node, func_name))
                   ELSE afterSource
      afterProp == IF _is_propagator_function(func_name)
                   THEN Then(afterSink, LAMBDA s : _process_propagator(s, node, parent, line))
                   ELSE afterSink
  IN IF func_name = <<>> THEN generic_visit(st, node, parent, line)
     ELSE Then(afterProp, LAMBDA s : generic_visit(s, node, parent, line))

\* visit_Assign with kill semantics: an assignment whose value holds no
\* tainted name removes the records of its targets.
visit_Assign_kills(st, node, parent, line) ==
  IF TooDeep(node[3]) THEN {Raise(st)}
  ELSE Then({IF tainted_vars # <<>>
             THEN MarkTargets(st, node[2], line, PROPAGATED, tainted_vars)
             ELSE [st EXCEPT !.tainted_vars =
                     SelectSeq(@, LAMBDA var :
                       \A t \in 1..Len(node[2]) :
                         ~(IsName(node[2][t]) /\ node[2][t][2] = var.name))]
              : tainted_vars \in _extract_tainted_from_expr(node[3], st.tainted_vars)},
            LAMBDA s : generic_visit(s, node, parent, line))

visit_Assign(st, node, parent, line) ==
  IF TooDeep(node[3]) THEN {Raise(st)}
  ELSE Then({IF tainted_vars # <<>>
             THEN MarkTargets(st, node[2], line, PROPAGATED, tainted_vars) ELSE st
              : tainted_vars \in _extract_tainted_from_expr(node[3], st.tainted_vars)},
            LAMBDA s : generic_visit(s, node, parent, line))

visit_AugAssign(st, node, parent, line) ==
  IF IsName(node[2]) /\ TooDeep(node[3]) THEN {Raise(st)}
  ELSE Then({IF IsName(node[2]) /\ tainted_vars # <<>>
             THEN _mark_as_tainted(st, node[2][2], line, PROPAGATED, tainted_vars) ELSE st
              : tainted_vars \in _extract_tainted_from_expr(node[3], st.tainted_vars)},
            LAMBDA s : generic_visit(s, node, parent, line))

\* NodeVisitor.visit: the visit_<class> method when the class has one,
\* generic_visit otherwise.
visit(st, node, parent, grandparent, line) ==
  CASE Kind(node) = "Call" -> visit_Call(st, node, parent, line)
    [] Kind(node) = "Attribute" -> {visit_Attribute(st, node, parent, grandparent, line)}
    [] Kind(node) = "Assign" -> visit_Assign(st, node, parent, line)
    [] Kind(node) = "AugAssign" -> visit_AugAssign(st, node, parent, line)
    [] OTHER -> generic_visit(st, node, parent, line)

RECURSIVE DirectLoop(_, _)
\* The loop of _process_direct_vulnerabilities over the placeholder map.
DirectLoop(st, entries) ==
  IF entries = <<>> THEN st
  ELSE LET e == Head(entries)
           func_name == _get_full_function_name(e.parent[2])
           st1 == IF IsCall(e.parent) /\ _is_sink_function(func_name) # None
                  THEN [st EXCEPT !.vulnerability_paths =
                          Append(@, <<e.temp_var, SinkLabel(func_name, 0)>>)]
                  ELSE st
       IN DirectLoop(st1, Tail(entries))

RECURSIVE DirectLoopAnyCall(_, _)
\* The loop without the test of the parent call against the sink table.
DirectLoopAnyCall(st, entries) ==
  IF entries = <<>> THEN st
  ELSE LET e == Head(entries)
           st1 == IF IsCall(e.parent)
                  THEN [st EXCEPT !.vulnerability_paths =
                          Append(@, <<e.temp_var,
                                      SinkLabel(_get_full_function_name(e.parent[2]), 0)>>)]
                  ELSE st
       IN DirectLoopAnyCall(st1, Tail(entries))

\* Faulty variant of _process_direct_vulnerabilities: a path for every
\* placeholder whose parent is a call, sink or not.
_process_direct_vulnerabilities_any_call(st) == DirectLoopAnyCall(st, st.direct_source_nodes)

\* Faulty variant of _process_direct_vulnerabilities: the pass does nothing.
_process_direct_vulnerabilities_skipped(st) == st

_process_direct_vulnerabilities(st) == DirectLoop(st, st.direct_source_nodes)

\* Faulty variant of _reset_state: the placeholder map is not cleared.
_reset_state_keeps_placeholders(st) ==
  [st EXCEPT !.tainted_vars = <<>>, !.vulnerability_paths = <<>>, !.propagation_graph = <<>>]

\* Faulty variant of _reset_state: the propagation graph is not cleared.
_reset_state_keeps_graph(st) ==
  [st EXCEPT !.tainted_vars = <<>>, !.vulnerability_paths = <<>>,
             !.direct_source_nodes = <<>>]

\* _reset_state: every container is cleared in place.
_reset_state(st) ==
  [st EXCEPT !.tainted_vars = <<>>, !.vulnerability_paths = <<>>,
             !.propagation_graph = <<>>, !.direct_source_nodes = <<>>]

\* ---------------------------------------- FixedTaintAnalyzer: the report
\* self.propagation_graph[current], or the empty list without the key.
Targets(graph, current) ==
  IF \E i \in 1..Len(graph) : graph[i].key = current
  THEN graph[CHOOSE i \in 1..Len(graph) : graph[i].key = current].targets
  ELSE <<>>

RECURSIVE dfs(_, _, _, _)
RECURSIVE DfsEach(_, _, _, _)
\* The for loop of dfs over the successors of a variable.
DfsEach(graph, nexts, path, acc) ==
  IF nexts = <<>> THEN acc
  ELSE DfsEach(graph, Tail(nexts), path, dfs(graph, Head(nexts), path, acc))

\* dfs of _extract_all_chains; acc holds the closure's visited and chains.
dfs(graph, current, path, acc) ==
  IF current \in acc.visited THEN acc
  ELSE LET acc1 == [acc EXCEPT !.visited = @ \cup {current}]
           path1 == Append(path, current)
       IN IF Targets(graph, current) = <<>>
          THEN IF Len(path1) > 1 THEN [acc1 EXCEPT !.chains = Append(@, path1)] ELSE acc1
          ELSE DfsEach(graph, Targets(graph, current), path1, acc1)

RECURSIVE ChainsFrom(_, _, _)
\* The loop over the root variables, in the order the set lists them.
ChainsFrom(graph, sources, acc) ==
  IF sources = <<>> THEN acc.chains
  ELSE ChainsFrom(graph, Tail(sources), dfs(graph, Head(sources), <<>>, acc))

\* The lists _extract_all_chains may return: the roots are iterated as a set.
_extract_all_chains(st) ==
  LET all_vars == {st.tainted_vars[i].name : i \in 1..Len(st.tainted_vars)}
      vars_with_incoming ==
        UNION {Range(st.propagation_graph[i].targets) : i \in 1..Len(st.propagation_graph)}
  IN {ChainsFrom(st.propagation_graph, sources, [visited |-> {}, chains |-> <<>>])
       : sources \in ListsOfSet(all_vars \ vars_with_incoming)}

IsPlaceholder(name) == StartsWith(name, <<"_","_","d","i","r","e","c","t","_","s","o","u","r","c","e","_">>)

RECURSIVE GraphEdges(_)
\* [source, target] for every target of every key, in dict order.
GraphEdges(graph) ==
  IF graph = <<>> THEN <<>>
  ELSE [i \in 1..Len(Head(graph).targets) |-> <<Head(graph).key, Head(graph).targets[i]>>]
       \o GraphEdges(Tail(graph))

\* What analyze_code returns on an exception: the empty dict.
EmptyReport ==
  [empty |-> TRUE, tainted_variables |-> 0, vulnerability_paths |-> <<>>,
   graph_edges |-> <<>>, sources_found |-> <<>>, sinks_found |-> 0,
   propagation_chains |-> <<>>]

\* The dicts _generate_report may return (the file name is left out).
_generate_report(st) ==
  {[empty |-> FALSE,
    tainted_variables |->
      Len(SelectSeq(st.tainted_vars, LAMBDA v : ~IsPlaceholder(v.name))),
    vulnerability_paths |-> st.vulnerability_paths,
    graph_edges |-> SelectSeq(GraphEdges(st.propagation_graph), LAMBDA e : ~IsPlaceholder(e[1])),
    sources_found |-> SelectSeq(st.tainted_vars, LAMBDA v : ~IsPlaceholder(v.name)),
    sinks_found |-> Len(st.vulnerability_paths),
    propagation_chains |-> chains]
    : chains \in _extract_all_chains(st)}

\* ------------------------------------------------------- TaintAnalyzer
\* self.source_patterns and self.sink_patterns, in insertion order.
source_patterns ==
  << <<<<"i","n","p","u","t">>, "user_input">>, <<<<"r","a","w","_","i","n","p","u","t">>, "user_input">>,
     <<<<"a","r","g","v">>, "command_line">>, <<<<"g","e","t">>, "web_input">>, <<<<"p","o","s","t">>, "web_input">>,
     <<<<"r","e","q","u","e","s","t">>, "web_input">>, <<<<"e","n","v","i","r","o","n">>, "environment">>,
     <<<<"g","e","t","e","n","v">>, "environment">>, <<<<"r","e","a","d">>, "file_input">>, <<<<"r","e","c","v">>, "network">> >>

sink_patterns ==
  << <<<<"o","s",".","s","y","s","t","e","m">>, "command_injection">>, <<<<"o","s",".","p","o","p","e","n">>, "command_injection">>,
     <<<<"s","u","b","p","r","o","c","e","s","s",".","c","a","l","l">>, "command_injection">>, <<<<"s","u","b","p","r","o","c","e","s","s",".","P","o","p","e","n">>, "command_injection">>,
     <<<<"s","u","b","p","r","o","c","e","s","s",".","r","u","n">>, "command_injection">>, <<<<"e","v","a","l">>, "code_injection">>,
     <<<<"e","x","e","c">>, "code_injection">>, <<<<"c","o","m","p","i","l","e">>, "code_injection">>,
     <<<<"_","_","i","m","p","o","r","t","_","_">>, "code_injection">>, <<<<"p","i","c","k","l","e",".","l","o","a","d","s">>, "deserialization">>,
     <<<<"y","a","m","l",".","l","o","a","d">>, "deserialization">>, <<<<"m","a","r","s","h","a","l",".","l","o","a","d","s">>, "deserialization">>,
     <<<<"o","p","e","n">>, "path_traversal">>, <<<<"e","x","e","c","f","i","l","e">>, "code_injection">> >>

propagator_patterns ==
  { <<"f","o","r","m","a","t">>, <<"r","e","p","l","a","c","e">>, <<"s","t","r","i","p">>, <<"s","p","l","i","t">>, <<"j","o","i","n">>, <<"u","p","p","e","r">>, <<"l","o","w","e","r">>,
    <<"e","n","c","o","d","e">>, <<"d","e","c","o","d","e">>, <<"c","a","p","i","t","a","l","i","z","e">>, <<"t","i","t","l","e">>, <<"s","w","a","p","c","a","s","e">>, <<"l","s","t","r","i","p">>, <<"r","s","t","r","i","p">> }

_extract_attribute_name(node) == Join(Reverse(AttributeParts(node)))

_extract_function_name(node) ==
  IF IsName(node) THEN node[2]
  ELSE IF IsAttribute(node) THEN _extract_attribute_name(node)
  ELSE <<>>

_get_taint_type(func_name) ==
  FirstHit(source_patterns, LAMBDA pattern : Contains(func_name, pattern))

_get_vulnerability_type(func_name) ==
  FirstHit(sink_patterns, LAMBDA pattern : Contains(func_name, pattern))

_is_propagator(func_name) == Split(func_name)[Len(Split(func_name))] \in propagator_patterns

RECURSIVE _find_tainted_variables(_, _)
RECURSIVE FindEach(_, _)
FindEach(nodes, tv) ==
  IF nodes = <<>> THEN {<<>>}
  ELSE {h \o t : h \in _find_tainted_variables(Head(nodes), tv), t \in FindEach(Tail(nodes), tv)}

_find_tainted_variables(node, tv) ==
  LET tainted ==
        CASE Kind(node) = "Name" ->
               IF Tainted(tv, node[2]) THEN {<<node[2]>>} ELSE {<<>>}
          [] Kind(node) = "BinOp" -> FindEach(<<node[2], node[3]>>, tv)
          [] Kind(node) = "Call" -> FindEach(node[3], tv)
          [] OTHER -> {<<>>}
  IN UNION {ListsOfSet(Range(t)) : t \in tainted}

\* Nesting depth of the BinOp spine _find_tainted_variables descends.
RECURSIVE FindDepth(_)
FindDepth(node) ==
  CASE Kind(node) = "BinOp" -> 1 + Max({FindDepth(node[2]), FindDepth(node[3])})
    [] Kind(node) = "Call" -> Max({0} \cup {FindDepth(node[3][i]) : i \in 1..Len(node[3])})
    [] OTHER -> 0

_create_or_update_tainted_var(st, var_name, line, taint_type, sources) ==
  LET created == IF Tainted(st.tainted_vars, var_name) THEN st
                 ELSE [st EXCEPT !.tainted_vars =
                         Append(@, TaintVariable(var_name, line, taint_type))]
  IN MarkLoop(created, var_name, sources)

RECURSIVE TA_TraceLoop(_, _, _)
\* The while loop of TaintAnalyzer._trace_taint_path.
TA_TraceLoop(tv, path, current) ==
  IF Tainted(tv, current)
  THEN LET var == Var(tv, current)
       IN IF var.sources # <<>>
          THEN IF var.sources[1] \notin Range(path)
               THEN TA_TraceLoop(tv, <<var.sources[1]>> \o path, var.sources[1])
               ELSE path
          ELSE path
  ELSE path

TA_trace_taint_path(tv, start_var) == TA_TraceLoop(tv, <<start_var>>, start_var)

\* The nodes of this analyzer are never given a parent attribute.
TA_parent(node) == NoNode

_handle_taint_source(st, node, line, taint_type) ==
  IF IsAssign(TA_parent(node))
  THEN SourceTargets(st, TA_parent(node)[2], line, taint_type)
  ELSE st

RECURSIVE TA_SinkVars(_, _, _)
TA_SinkVars(st, tainted_args, func_name) ==
  IF tainted_args = <<>> THEN st
  ELSE LET path == TA_trace_taint_path(st.tainted_vars, Head(tainted_args))
           st1 == IF path # <<>>
                  THEN [st EXCEPT !.vulnerability_paths =
                          Append(@, Append(path, func_name \o <<"(",")">>))]
                  ELSE st
       IN TA_SinkVars(st1, Tail(tainted_args), func_name)

_handle_taint_sink(st, node, func_name) ==
  IF \E i \in 1..Len(node[3]) : FindDepth(node[3][i]) > RecursionLimit THEN {Raise(st)}
  ELSE {TA_SinkVars(st, tainted_args, func_name)
         : tainted_args \in FindEach(node[3], st.tainted_vars)}

_handle_propagator(st, node, line) ==
  IF \E i \in 1..Len(node[3]) : FindDepth(node[3][i]) > RecursionLimit THEN {Raise(st)}
  ELSE {IF tainted_inputs # <<>> /\ IsAssign(TA_parent(node))
        THEN MarkTargets(st, TA_parent(node)[2], line, PROPAGATED, tainted_inputs)
        ELSE st
         : tainted_inputs \in FindEach(node[3], st.tainted_vars)}

RECURSIVE TA_visit(_, _, _)
RECURSIVE TA_VisitEach(_, _, _)
TA_VisitEach(S, nodes, line) ==
  IF nodes = <<>> THEN S
  ELSE TA_VisitEach(Then(S, LAMBDA st : TA_visit(st, Head(nodes), line)), Tail(nodes), line)

TA_generic_visit(st, node, line) ==
  IF Kind(node) = "BinOp" /\ TooDeep(node) THEN {Raise(st)}
  ELSE TA_VisitEach({st}, Children(node), line)

TA_visit_Call(st, node, line) ==
  LET func_name == _extract_function_name(node[2])
      taint_type == _get_taint_type(func_name)
      afterSource == IF taint_type # None
                     THEN {_handle_taint_source(st, node, line, taint_type)} ELSE {st}
      afterSink == IF _get_vulnerability_type(func_name) # None
                   THEN Then(afterSource, LAMBDA s : _handle_taint_sink(s, node, func_name))
                   ELSE afterSource
      afterProp == IF _is_propagator(func_name)
                   THEN Then(afterSink, LAMBDA s : _handle_propagator(s, node, line))
                   ELSE afterSink
  IN Then(afterProp, LAMBDA s : TA_generic_visit(s, node, line))

RECURSIVE TA_MarkTargets(_, _, _, _)
TA_MarkTargets(st, targets, line, sources) ==
  IF targets = <<>> THEN st
  ELSE LET st1 == IF IsName(Head(targets))
                  THEN _create_or_update_tainted_var(st, Head(targets)[2], line,
                                                     PROPAGATED, sources)
                  ELSE st
       IN TA_MarkTargets(st1, Tail(targets), line, sources)

TA_visit_Assign(st, node, line) ==
  IF FindDepth(node[3]) > RecursionLimit THEN {Raise(st)}
  ELSE Then({IF tainted_sources # <<>>
             THEN TA_MarkTargets(st, node[2], line, tainted_sources) ELSE st
              : tainted_sources \in _find_tainted_variables(node[3], st.tainted_vars)},
            LAMBDA s : TA_generic_visit(s, node, line))

RECURSIVE ParameterLoop(_, _, _)
\* The loop of visit_FunctionDef over node.args.args.
ParameterLoop(st, args, line) ==
  IF args = <<>> THEN st
  ELSE ParameterLoop(
         IF Tainted(st.tainted_vars, Head(args)) THEN st
         ELSE [st EXCEPT !.tainted_vars = Append(@, TaintVariable(Head(args), line, PARAMETER))],
         Tail(args), line)

TA_visit_FunctionDef(st, node, line) ==
  TA_generic_visit(ParameterLoop(st, node[2], line), node, line)

TA_visit(st, node, line) ==
  CASE Kind(node) = "Call" -> TA_visit_Call(st, node, line)
    [] Kind(node) = "Assign" -> TA_visit_Assign(st, node, line)
    [] Kind(node) = "FunctionDef" -> TA_visit_FunctionDef(st, node, line)
    [] OTHER -> TA_generic_visit(st, node, line)

_has_incoming_edges(graph, var_name) ==
  \E i \in 1..Len(graph) : var_name \in Range(graph[i].targets)

_extract_propagation_chains(st) ==
  ChainsFrom(st.propagation_graph,
             SelectSeq([i \in 1..Len(st.tainted_vars) |-> st.tainted_vars[i].name],
                       LAMBDA var_name : ~_has_incoming_edges(st.propagation_graph, var_name)),
             [visited |-> {}, chains |-> <<>>])

TA_generate_report(st) ==
  [empty |-> FALSE,
   tainted_variables |-> Len(st.tainted_vars),
   vulnerability_paths |-> st.vulnerability_paths,
   graph_edges |-> GraphEdges(st.propagation_graph),
   sources_found |->
     SelectSeq(st.tainted_vars,
               LAMBDA v : v.type \in {USER_INPUT, COMMAND_LINE, WEB_INPUT, "file_input"}),
   sinks_found |-> Len(st.vulnerability_paths),
   propagation_chains |-> _extract_propagation_chains(st)]

TA_reset_state(st) ==
  [st EXCEPT !.tainted_vars = <<>>, !.vulnerability_paths = <<>>, !.propagation_graph = <<>>]

\* ------------------------------------------------ SimplePythonAnalyzer
\* DANGEROUS_FUNCTIONS, in the order the set literal is written.
DANGEROUS_FUNCTIONS ==
  << <<"e","x","e","c">>, <<"e","v","a","l">>, <<"e","x","e","c","u","t","e">>, <<"c","o","m","p","i","l","e">>, <<"o","p","e","n">>, <<"_","_","i","m","p","o","r","t","_","_">>,
     <<"o","s",".","s","y","s","t","e","m">>, <<"o","s",".","p","o","p","e","n">>, <<"o","s",".","s","p","a","w","n">>, <<"s","u","b","p","r","o","c","e","s","s",".","r","u","n">>,
     <<"s","u","b","p","r","o","c","e","s","s",".","c","a","l","l">>, <<"s","u","b","p","r","o","c","e","s","s",".","P","o","p","e","n">>, <<"p","i","c","k","l","e",".","l","o","a","d","s">>,
     <<"y","a","m","l",".","l","o","a","d">>, <<"s","q","l","i","t","e","3",".","c","o","n","n","e","c","t">>, <<"c","u","r","s","o","r",".","e","x","e","c","u","t","e">>, <<"c","o","n","n",".","e","x","e","c","u","t","e">> >>

\* The orders in which the set may be iterated that the model considers:
\* the written order started at any of its elements.
IterationOrders ==
  {[i \in 1..Len(DANGEROUS_FUNCTIONS) |->
      DANGEROUS_FUNCTIONS[((i + k - 1) % Len(DANGEROUS_FUNCTIONS)) + 1]]
    : k \in 0..(Len(DANGEROUS_FUNCTIONS) - 1)}

_get_attribute_name(node) == Join(Reverse(AttributeParts(node)))

_get_function_name(node) ==
  IF IsName(node) THEN node[2]
  ELSE IF IsAttribute(node) THEN _get_attribute_name(node)
  ELSE <<>>

RECURSIVE DangerLoop(_, _)
\* The for loop of _is_dangerous_function over the set, in a given order.
DangerLoop(func_name, order) ==
  IF order = <<>> THEN FALSE
  ELSE LET dangerous == Head(order)
           func_parts == Split(func_name)
           dangerous_parts == Split(dangerous)
       IN IF "." \notin Range(dangerous) THEN DangerLoop(func_name, Tail(order))
          ELSE IF func_parts[1] # dangerous_parts[1] THEN DangerLoop(func_name, Tail(order))
          ELSE IF func_parts[1] = <<"o","s">>
               THEN IF Len(func_parts) > 1 /\ StartsWith(func_parts[2], <<"p","a","t","h">>) THEN FALSE
                    ELSE IF StartsWith(dangerous_parts[2], <<"s","p","a","w","n">>)
                         THEN StartsWith(func_parts[2], <<"s","p","a","w","n">>)
                    ELSE IF StartsWith(dangerous_parts[2], <<"p","o","p","e","n">>)
                         THEN StartsWith(func_parts[2], <<"p","o","p","e","n">>)
                    ELSE func_name = dangerous
               ELSE TRUE

_is_dangerous_function(func_name, order) ==
  IF EndsWith(func_name, <<".","e","x","e","c","u","t","e">>) \/ func_name = <<"e","x","e","c","u","t","e">> THEN TRUE
  ELSE IF func_name \in Range(DANGEROUS_FUNCTIONS) THEN TRUE
  ELSE IF "." \notin Range(func_name) THEN FALSE
  ELSE DangerLoop(func_name, order)

\* _analyze_call: the results list after the call and whether the except
\* clause caught an exception (ast.unparse recurses into the call).
_analyze_call(results, node, line, order) ==
  LET func_name == _get_function_name(node[2])
      is_danger_func == _is_dangerous_function(func_name, order)
      has_suspicious_arg ==
        \E i \in 1..Len(node[3]) : Kind(node[3][i]) \in {"JoinedStr", "BinOp", "Name"}
      is_custom_dispatch ==
        /\ "." \notin Range(func_name)
        /\ func_name \notin {<<"p","r","i","n","t">>, <<"l","e","n">>, <<"d","i","c","t">>, <<"l","i","s","t">>}
      found == [line |-> line, api |-> node, function_name |-> func_name]
  IN IF func_name = <<>> THEN [results |-> results, caught |-> FALSE]
     ELSE IF is_danger_func \/ (is_custom_dispatch /\ has_suspicious_arg)
          THEN IF TooDeep(node) THEN [results |-> results, caught |-> TRUE]
               ELSE IF found \notin Range(results)
                    THEN [results |-> Append(results, found), caught |-> FALSE]
                    ELSE [results |-> results, caught |-> FALSE]
          ELSE [results |-> results, caught |-> FALSE]

RECURSIVE Walk(_)
\* ast.walk: breadth first from a queue of (node, line) entries.
Walk(todo) ==
  IF todo = <<>> THEN <<>>
  ELSE LET node == Head(todo).node
           kids == Children(node)
       IN <<Head(todo)>> \o
          Walk(Tail(todo) \o
               [i \in 1..Len(kids) |->
                  [node |-> kids[i],
                   line |-> IF Kind(node) = "Module" THEN i ELSE Head(todo).line]])

\* The Call nodes _visit_tree hands to _analyze_call, in order.
CallsOf(tree) ==
  SelectSeq(Walk(<<[node |-> tree, line |-> 0]>>), LAMBDA e : IsCall(e.node))

\* ------------------------------------------------ AdvancedTaintTracker
\* A file open() cannot read.
Unreadable == <<"OSError">>

RECURSIVE TA_VisitBody(_, _, _)
\* self.visit(tree) of a TaintAnalyzer: the statements of the Module in order.
TA_VisitBody(S, body, line) ==
  IF line > Len(body) THEN S
  ELSE TA_VisitBody(Then(S, LAMBDA st : TA_visit(st, body[line], line)), body, line + 1)

\* Faulty variant of TA_analyze_file: a failed traversal still reports
\* what it had found.
TA_analyze_file_partial(content) ==
  IF content \in {Unreadable, Unparsable} THEN {EmptyReport}
  ELSE {TA_generate_report([st EXCEPT !.raised = FALSE])
         : st \in TA_VisitBody({TA_reset_state(EmptyState)}, content[2], 1)}

\* The dicts TaintAnalyzer.analyze_file may return for a file's content.
TA_analyze_file(content) ==
  IF content \in {Unreadable, Unparsable} THEN {EmptyReport}
  ELSE {IF st.raised THEN EmptyReport ELSE TA_generate_report(st)
         : st \in TA_VisitBody({TA_reset_state(EmptyState)}, content[2], 1)}

\* The bucket _generate_project_summary counts a path in, or None.
SinkBucket(path) ==
  LET sink == IF path # <<>> THEN path[Len(path)] ELSE <<>>
  IN IF Contains(sink, <<"s","y","s","t","e","m">>) \/ Contains(sink, <<"s","u","b","p","r","o","c","e","s","s">>) THEN "command_injection"
     ELSE IF Contains(sink, <<"e","v","a","l">>) \/ Contains(sink, <<"e","x","e","c">>) THEN "code_injection"
     ELSE IF Contains(sink, <<"l","o","a","d">>) THEN "deserialization"
     ELSE IF Contains(sink, <<"o","p","e","n">>) THEN "path_traversal"
     ELSE None

RECURSIVE CountPaths(_, _)
\* The number of paths of every result that fall in a bucket.
CountPaths(results, bucket) ==
  IF results = <<>> THEN 0
  ELSE Cardinality({i \in 1..Len(Head(results).result.vulnerability_paths) :
                      SinkBucket(Head(results).result.vulnerability_paths[i]) = bucket})
       + CountPaths(Tail(results), bucket)

RECURSIVE TotalPaths(_)
TotalPaths(results) ==
  IF results = <<>> THEN 0
  ELSE Len(Head(results).result.vulnerability_paths) + TotalPaths(Tail(results))

\* A vulnerability_types entry is absent until its first path: 0 stands for absent.
_generate_project_summary(results) ==
  [total_files |-> Len(results),
   total_vulnerabilities |-> TotalPaths(results),
   files_with_vulns |->
     Cardinality({i \in 1..Len(results) : Len(results[i].result.vulnerability_paths) > 0}),
   vulnerability_types |->
     [b \in {"command_injection", "code_injection", "deserialization", "path_traversal"} |->
        CountPaths(results, b)]]

\* ------------------------------------------- a whole call on a new instance
RECURSIVE VisitBody(_, _, _)
\* self.visit(tree) of a FixedTaintAnalyzer: the statements of the Module in order.
VisitBody(S, tree, line) ==
  IF line > Len(tree[2]) THEN S
  ELSE VisitBody(Then(S, LAMBDA st : visit(st, tree[2][line], tree, NoNode, line)),
                 tree, line + 1)

\* The dicts FixedTaintAnalyzer().analyze_code may return for a source text.
analyze_code(unit) ==
  IF unit = Unparsable THEN {EmptyReport}
  ELSE UNION {IF st.raised THEN {EmptyReport}
              ELSE _generate_report(_process_direct_vulnerabilities(st))
               : st \in VisitBody({_reset_state(EmptyState)}, unit, 1)}

\* ------------------------------------------------------ the source units
\* x + x + ... + x with n additions; Python parses it left-nested.
RECURSIVE Chain(_, _)
Chain(operand, n) == IF n = 0 THEN operand ELSE BinOp(Chain(operand, n - 1), operand)

input_call == Call(Name(<<"i","n","p","u","t">>), <<>>)
os_system(arg) == Call(Attribute(Name(<<"o","s">>), <<"s","y","s","t","e","m">>), <<arg>>)

\* One-line statements the generated units are made of.
Stmts ==
  { Assign(<<Name(<<"x">>)>>, input_call),                                \* x = input()
    Assign(<<Name(<<"y">>)>>, Call(Attribute(Name(<<"x">>), <<"s","t","r","i","p">>), <<>>)), \* y = x.strip()
    Expr(os_system(Name(<<"x">>))),                                       \* os.system(x)
    Expr(os_system(BinOp(Name(<<"x">>), Name(<<"y">>)))),                    \* os.system(x + y)
    Expr(Call(Name(<<"e","v","a","l">>), <<input_call>>)),                         \* eval(input())
    Expr(Call(Name(<<"p","r","i","n","t">>), <<Name(<<"x">>)>>)),                        \* print(x)
    \* os.path.join(x, y)
    Expr(Call(Attribute(Attribute(Name(<<"o","s">>), <<"p","a","t","h">>), <<"j","o","i","n">>), <<Name(<<"x">>), Name(<<"y">>)>>)) }

\* Scenario A:  x = input(); os.system(x)
ScenarioA ==
  Module(<< Assign(<<Name(<<"x">>)>>, input_call), Expr(os_system(Name(<<"x">>))) >>)

\* Scenario B (test4_code):  cmd = input(); clean = cmd.strip(); os.system(clean)
ScenarioB ==
  Module(<< Assign(<<Name(<<"c","m","d">>)>>, input_call),
            Assign(<<Name(<<"c","l","e","a","n">>)>>, Call(Attribute(Name(<<"c","m","d">>), <<"s","t","r","i","p">>), <<>>)),
            Expr(os_system(Name(<<"c","l","e","a","n">>))) >>)

\* Scenario C (test2_code):  eval(input())
ScenarioC == Module(<< Expr(Call(Name(<<"e","v","a","l">>), <<input_call>>)) >>)

\* Scenario D with a, b and x tainted:
\*   a = input(); b = input(); x = input(); os.path.join(a, b); print(x)
ScenarioD ==
  Module(<< Assign(<<Name(<<"a">>)>>, input_call), Assign(<<Name(<<"b">>)>>, input_call),
            Assign(<<Name(<<"x">>)>>, input_call),
            Expr(Call(Attribute(Attribute(Name(<<"o","s">>), <<"p","a","t","h">>), <<"j","o","i","n">>),
                      <<Name(<<"a">>), Name(<<"b">>)>>)),
            Expr(Call(Name(<<"p","r","i","n","t">>), <<Name(<<"x">>)>>)) >>)

\* Scenario E:  def f(user_data): os.system(user_data)
ScenarioE ==
  Module(<< FunctionDef(<<<<"u","s","e","r","_","d","a","t","a">>>>, <<Expr(os_system(Name(<<"u","s","e","r","_","d","a","t","a">>)))>>) >>)

\* Two origins merged:  a = input(); b = input(); c = a + b; os.system(c)
TwoOrigins ==
  Module(<< Assign(<<Name(<<"a">>)>>, input_call), Assign(<<Name(<<"b">>)>>, input_call),
            Assign(<<Name(<<"c">>)>>, BinOp(Name(<<"a">>), Name(<<"b">>))),
            Expr(os_system(Name(<<"c">>))) >>)

\* A finding followed by an expression nested deeper than the recursion
\* limit:  x = input(); os.system(x); y = x + x + ... + x
DeepUnit ==
  Module(<< Assign(<<Name(<<"x">>)>>, input_call), Expr(os_system(Name(<<"x">>))),
            Assign(<<Name(<<"y">>)>>, Chain(Name(<<"x">>), RecursionLimit + 1)) >>)

\* A call whose argument is nested deeper than the recursion limit, then a
\* finding:  os.system(x + x + ... + x); os.system(x)
DeepCall ==
  Module(<< Expr(os_system(Chain(Name(<<"x">>), RecursionLimit + 1))),
            Expr(os_system(Name(<<"x">>))) >>)

Scenarios ==
  {ScenarioA, ScenarioB, ScenarioC, ScenarioD, ScenarioE, TwoOrigins, DeepUnit, DeepCall,
   Unparsable}

\* An inline source in a sink before a sink on a variable:
\*   x = input(); eval(input()); os.system(x)
InlineThenSink ==
  Module(<< Assign(<<Name(<<"x">>)>>, input_call), Expr(Call(Name(<<"e","v","a","l">>), <<input_call>>)),
            Expr(os_system(Name(<<"x">>))) >>)

\* A sink with two tainted arguments:  x = input(); y = input(); os.system(y, x)
TwoArguments ==
  Module(<< Assign(<<Name(<<"x">>)>>, input_call), Assign(<<Name(<<"y">>)>>, input_call),
            Expr(Call(Attribute(Name(<<"o","s">>), <<"s","y","s","t","e","m">>), <<Name(<<"y">>), Name(<<"x">>)>>)) >>)

\* A statement that reads and writes one variable:  x = input(); x = x.strip()
SelfAssign ==
  Module(<< Assign(<<Name(<<"x">>)>>, input_call),
            Assign(<<Name(<<"x">>)>>, Call(Attribute(Name(<<"x">>), <<"s","t","r","i","p">>), <<>>)) >>)

\* x = input(); y = input(); x += y; x = x + y
SelfAugAssign ==
  Module(<< Assign(<<Name(<<"x">>)>>, input_call), Assign(<<Name(<<"y">>)>>, input_call),
            AugAssign(Name(<<"x">>), Name(<<"y">>)),
            Assign(<<Name(<<"x">>)>>, BinOp(Name(<<"x">>), Name(<<"y">>))) >>)

\* A propagated name reassigned from a source call:  a = input(); b = a; b = input()
Reassign ==
  Module(<< Assign(<<Name(<<"a">>)>>, input_call), Assign(<<Name(<<"b">>)>>, Name(<<"a">>)),
            Assign(<<Name(<<"b">>)>>, input_call) >>)

\* A tainted name reassigned from a constant:  x = input(); x = 1; os.system(x)
Untaint ==
  Module(<< Assign(<<Name(<<"x">>)>>, input_call), Assign(<<Name(<<"x">>)>>, Constant),
            Expr(os_system(Name(<<"x">>))) >>)

\* Two names assigned from each other:  x = input(); y = x; x = y; os.system(x)
Cycle ==
  Module(<< Assign(<<Name(<<"x">>)>>, input_call), Assign(<<Name(<<"y">>)>>, Name(<<"x">>)),
            Assign(<<Name(<<"x">>)>>, Name(<<"y">>)), Expr(os_system(Name(<<"x">>))) >>)

\* The diamond a -> b, a -> c, b -> d, c -> d:
\*   a = input(); b = a; c = a; d = b; d = c
Diamond ==
  Module(<< Assign(<<Name(<<"a">>)>>, input_call), Assign(<<Name(<<"b">>)>>, Name(<<"a">>)),
            Assign(<<Name(<<"c">>)>>, Name(<<"a">>)), Assign(<<Name(<<"d">>)>>, Name(<<"b">>)),
            Assign(<<Name(<<"d">>)>>, Name(<<"c">>)) >>)

\* A chain with a branch:  a = input(); b = a; c = b; d = a
Branch ==
  Module(<< Assign(<<Name(<<"a">>)>>, input_call), Assign(<<Name(<<"b">>)>>, Name(<<"a">>)),
            Assign(<<Name(<<"c">>)>>, Name(<<"b">>)), Assign(<<Name(<<"d">>)>>, Name(<<"a">>)) >>)

\* Parameters assigned from each other:
\*   def f(x, y): x = y; y = x; os.system(x)
ParamCycle ==
  Module(<< FunctionDef(<<<<"x">>, <<"y">>>>,
                        << Assign(<<Name(<<"x">>)>>, Name(<<"y">>)),
                           Assign(<<Name(<<"y">>)>>, Name(<<"x">>)),
                           Expr(os_system(Name(<<"x">>))) >>) >>)

\* Sinks by their last segment:  x = input(); obj.eval(x); Popen(x)
DottedSink ==
  Module(<< Assign(<<Name(<<"x">>)>>, input_call),
            Expr(Call(Attribute(Name(<<"o","b","j">>), <<"e","v","a","l">>), <<Name(<<"x">>)>>)),
            Expr(Call(Name(<<"P","o","p","e","n">>), <<Name(<<"x">>)>>)) >>)

\* A sink name on a chain rooted in a call:  x = input(); foo().system(x)
UnresolvedSink ==
  Module(<< Assign(<<Name(<<"x">>)>>, input_call),
            Expr(Call(Attribute(Call(Name(<<"f","o","o">>), <<>>), <<"s","y","s","t","e","m">>), <<Name(<<"x">>)>>)) >>)

\* A source call as the receiver of a method:  x = input().strip(); os.system(x)
ReceiverCall ==
  Module(<< Assign(<<Name(<<"x">>)>>, Call(Attribute(input_call, <<"s","t","r","i","p">>), <<>>)),
            Expr(os_system(Name(<<"x">>))) >>)

\* Inline sources in a call that is no sink and in one that is:
\*   foo(input()); eval(input())
InlineMixed ==
  Module(<< Expr(Call(Name(<<"f","o","o">>), <<input_call>>)), Expr(Call(Name(<<"e","v","a","l">>), <<input_call>>)) >>)

\* A call of the os.spawn family (test_simple_analyzer):  os.spawnlp(os.P_WAIT, "ls", "ls")
SpawnCall ==
  Module(<< Expr(Call(Attribute(Name(<<"o","s">>), <<"s","p","a","w","n","l","p">>),
                      <<Attribute(Name(<<"o","s">>), <<"P","_","W","A","I","T">>), Constant, Constant>>)) >>)

\* A file with a sink whose name holds "open":  def f(p): os.popen(p)
PopenFile ==
  Module(<< FunctionDef(<<<<"p">>>>,
                        <<Expr(Call(Attribute(Name(<<"o","s">>), <<"p","o","p","e","n">>), <<Name(<<"p">>)>>))>>) >>)

\* Further source texts, each for one property of the store or the report.
Programs ==
  {InlineThenSink, TwoArguments, SelfAssign, SelfAugAssign, Reassign, Untaint, Cycle,
   Diamond, Branch, ParamCycle, DottedSink, UnresolvedSink, ReceiverCall,
   InlineMixed, SpawnCall}

\* Every statement list of at most MaxLen statements of Stmts.
Bodies == UNION {[1..n -> Stmts] : n \in 1..MaxLen}

\* The source texts handed to analyze_code.
Units == Scenarios \cup Programs \cup {Module(body) : body \in Bodies}


\* A directory entry: whether its name ends in .py, and what reading and
\* parsing it gives.  An entry's path is its position in the listing.
Files ==
  {[py |-> TRUE, content |-> c]
    : c \in {Unreadable, Unparsable, ScenarioA, ScenarioE, DeepUnit, PopenFile}}
    \cup {[py |-> FALSE, content |-> ScenarioE]}

\* The listings os.walk may give of a project of at most MaxFiles files.
Projects == UNION {[1..n -> Files] : n \in 0..MaxFiles}

\* ------------------------------------------------ the stores a run leaves
\* The statements a store is built of: v = s over three names, and b = input().
StoreNames == {<<"a">>, <<"b">>, <<"c">>}

StoreStmts ==
  {Assign(<<Name(v)>>, Name(s)) : v \in StoreNames, s \in StoreNames}
    \cup {Assign(<<Name(<<"b">>)>>, input_call)}

\* Every statement list of at most MaxMarks statements of StoreStmts.
StoreBodies == UNION {[1..n -> StoreStmts] : n \in 0..MaxMarks}

\* The texts whose traversal builds the stores: a = input() followed by the
\* statements for the FixedTaintAnalyzer, def f(a): around them for
\* the TaintAnalyzer, which taints parameters only.
StorePrograms(class) ==
  IF class = "FixedTaintAnalyzer"
  THEN {Module(<<Assign(<<Name(<<"a">>)>>, input_call)>> \o body) : body \in StoreBodies}
  ELSE {Module(<<FunctionDef(<<<<"a">>>>, body)>>) : body \in StoreBodies}

\* The containers of an instance of class after self.visit(tree) of those texts.
Stores(class) ==
  UNION {IF class = "FixedTaintAnalyzer"
         THEN VisitBody({_reset_state(EmptyState)}, tree, 1)
         ELSE TA_VisitBody({TA_reset_state(EmptyState)}, tree[2], 1)
          : tree \in StorePrograms(class)}

\* The sources lists the callers of _mark_as_tainted and
\* _create_or_update_tainted_var pass: names with a record, one or two of
\* them; only _process_propagator, which concatenates the lists of its
\* inputs, can pass a name twice.
CallerSources(class, tv) ==
  {sources \in UNION {[1..n -> {tv[i].name : i \in 1..Len(tv)}] : n \in 1..2} :
     class = "TaintAnalyzer" => \A i, j \in 1..Len(sources) : sources[i] = sources[j] => i = j}

\* ---------------------------------------------------------- the machine
VARIABLES
  analyzer,             \* the class of the instance under analysis
  order,                \* the iteration order of DANGEROUS_FUNCTIONS in this process
  code,                 \* the parsed source unit of the current analyze_code call
  pc,                   \* where the running call stands, idle before and returned after
  idx,                  \* the top-level statement (or project file) reached next
  tainted_vars,         \* self.tainted_vars
  vulnerability_paths,  \* self.vulnerability_paths
  propagation_graph,    \* self.propagation_graph
  direct_source_nodes,  \* self._direct_source_nodes
  caught,               \* the exception the last except clause caught, or None
  result,               \* the dict the last call returned, as its caller sees it now
  prev,                 \* history: what the preceding call returned for the same text
  dirty,                \* history: the preceding call left something in the containers
  results,              \* SimplePythonAnalyzer: self.results
  todo,                 \* SimplePythonAnalyzer: the Call nodes ast.walk has yet to yield
  project,              \* AdvancedTaintTracker: the listing of the project walked
  per_file_results,     \* AdvancedTaintTracker: the results dict of analyze_project
  summary,              \* AdvancedTaintTracker: the summary of the returned dict
  start_var,            \* _trace_taint_path: its argument
  path,                 \* _trace_taint_path: the list it builds and returns
  visited,              \* _trace_taint_path: the set of names the loop has been at
  current,              \* _trace_taint_path: the name the loop is at
  steps,                \* history: the backward steps of the running trace
  call,                 \* history: the arguments of the last mark, and the store before it
  handled               \* history: the Call nodes visit_Call was invoked for in this run

vars ==
  <<analyzer, order, code, pc, idx, tainted_vars, vulnerability_paths, propagation_graph,
    direct_source_nodes, caught, result, prev, dirty, results, todo, project,
    per_file_results, summary, start_var, path, visited, current, steps, call,
    handled>>

taint == <<tainted_vars, vulnerability_paths, propagation_graph, direct_source_nodes>>
simple == <<results, todo>>
tracker == <<project, per_file_results, summary>>
tracer == <<start_var, path, visited, current, steps>>

\* No mark yet.
NoCall == [var_name |-> <<>>, line |-> 0, taint_type |-> None, sources |-> <<>>, before |-> <<>>]

\* The instance's containers as one analysis state, and back.
Self ==
  [tainted_vars |-> tainted_vars, vulnerability_paths |-> vulnerability_paths,
   propagation_graph |-> propagation_graph, direct_source_nodes |-> direct_source_nodes,
   raised |-> FALSE, handled |-> handled]

Store(st) ==
  /\ tainted_vars' = st.tainted_vars
  /\ vulnerability_paths' = st.vulnerability_paths
  /\ propagation_graph' = st.propagation_graph
  /\ direct_source_nodes' = st.direct_source_nodes
  /\ handled' = st.handled

\* No report yet.
NoReport == [EmptyReport EXCEPT !.empty = FALSE]

NoSummary ==
  [total_files |-> 0, total_vulnerabilities |-> 0, files_with_vulns |-> 0,
   vulnerability_types |->
     [b \in {"command_injection", "code_injection", "deserialization", "path_traversal"} |-> 0]]

\* A returned report holds self.vulnerability_paths itself, not a copy:
\* what the caller reads in it follows the list.
Aliased(report, paths) ==
  IF report.empty \/ report = NoReport THEN report
  ELSE [report EXCEPT !.vulnerability_paths = paths]

\* A second call is followed from the named scenarios and for the same text.
MayCall(unit) ==
  \/ pc = "idle"
  \/ pc = "returned" /\ (unit = code \/ unit \in Scenarios \/ code \in Scenarios)

\* __init__ of an instance of one of the four classes
Init ==
  /\ analyzer \in {"FixedTaintAnalyzer", "TaintAnalyzer", "SimplePythonAnalyzer",
                   "AdvancedTaintTracker"}
  /\ order \in IterationOrders
  /\ analyzer # "SimplePythonAnalyzer" => order = DANGEROUS_FUNCTIONS
  /\ code = NoNode
  /\ pc = "idle"
  /\ idx = 0
  /\ tainted_vars = <<>>
  /\ vulnerability_paths = <<>>
  /\ propagation_graph = <<>>
  /\ direct_source_nodes = <<>>
  /\ caught = None
  /\ result = NoReport
  /\ prev = NoReport
  /\ dirty = FALSE
  /\ results = <<>>
  /\ todo = <<>>
  /\ project = <<>>
  /\ per_file_results = <<>>
  /\ summary = NoSummary
  /\ start_var = <<>>
  /\ path = <<>>
  /\ visited = {}
  /\ current = <<>>
  /\ steps = 0
  /\ call = NoCall
  /\ handled = <<>>

\* The start of an analyze_code of either taint analyzer: reset, then
\* parse; a SyntaxError is caught and the empty dict returned.
Begin(unit, cleared, first) ==
  /\ MayCall(unit)
  /\ code' = unit
  /\ Store([cleared EXCEPT !.handled = <<>>])
  /\ dirty' = ([Self EXCEPT !.handled = <<>>] # EmptyState)
  /\ prev' = IF pc = "returned" /\ unit = code THEN result ELSE NoReport
  /\ IF unit = Unparsable
     THEN /\ pc' = "returned"
          /\ caught' = "SyntaxError"
          /\ result' = EmptyReport
          /\ idx' = 0
     ELSE /\ pc' = IF unit[2] = <<>> THEN first ELSE "visit"
          /\ caught' = None
          /\ result' = Aliased(result, cleared.vulnerability_paths)
          /\ idx' = 1
  /\ UNCHANGED <<tracer, call, analyzer, order, simple, tracker>>

\* One top-level statement visited: S is what the visit may leave.
Step(S, last) ==
  /\ pc = "visit"
  /\ idx <= Len(code[2])
  /\ \E st \in S :
       /\ Store(st)
       /\ IF st.raised
          THEN /\ pc' = "returned"
               /\ caught' = "RecursionError"
               /\ result' = EmptyReport
               /\ idx' = idx
          ELSE /\ pc' = IF idx = Len(code[2]) THEN last ELSE "visit"
               /\ caught' = None
               /\ result' = Aliased(result, st.vulnerability_paths)
               /\ idx' = idx + 1
  /\ UNCHANGED <<tracer, call, analyzer, order, code, prev, dirty, simple, tracker>>

\* FixedTaintAnalyzer.analyze_code up to self.visit(tree)
AnalyzeCode(unit) ==
  /\ analyzer = "FixedTaintAnalyzer"
  /\ Begin(unit, _reset_state(Self), "direct")

\* self.visit(tree): generic_visit of the Module visits the next
\* top-level statement; an exception raised below it ends the call.
VisitStatement ==
  /\ analyzer = "FixedTaintAnalyzer"
  /\ Step(visit(Self, code[2][idx], code, NoNode, idx), "direct")

\* self._process_direct_vulnerabilities()
ProcessDirect ==
  /\ pc = "direct"
  /\ Store(_process_direct_vulnerabilities(Self))
  /\ result' = Aliased(result, _process_direct_vulnerabilities(Self).vulnerability_paths)
  /\ pc' = "report"
  /\ UNCHANGED <<tracer, call, analyzer, order, code, idx, caught, prev, dirty, simple, tracker>>

\* return self._generate_report()
GenerateReport ==
  /\ analyzer = "FixedTaintAnalyzer"
  /\ pc = "report"
  /\ result' \in _generate_report(Self)
  /\ pc' = "returned"
  /\ UNCHANGED <<tracer, call, analyzer, order, code, idx, taint, handled, caught, prev, dirty, simple, tracker>>

\* TaintAnalyzer.analyze_code up to self.visit(tree)
TA_AnalyzeCode(unit) ==
  /\ analyzer = "TaintAnalyzer"
  /\ Begin(unit, TA_reset_state(Self), "report")

\* TaintAnalyzer: self.visit(tree), one top-level statement
TA_VisitStatement ==
  /\ analyzer = "TaintAnalyzer"
  /\ Step(TA_visit(Self, code[2][idx], idx), "report")

\* TaintAnalyzer: return self._generate_report()
TA_GenerateReport ==
  /\ analyzer = "TaintAnalyzer"
  /\ pc = "report"
  /\ result' = TA_generate_report(Self)
  /\ pc' = "returned"
  /\ UNCHANGED <<tracer, call, analyzer, order, code, idx, taint, handled, caught, prev, dirty, simple, tracker>>

\* SimplePythonAnalyzer.analyze_code up to the loop of _visit_tree:
\* self.results is rebound to a new list, then the text is parsed.
SimpleAnalyzeCode(unit) ==
  /\ analyzer = "SimplePythonAnalyzer"
  /\ MayCall(unit)
  /\ code' = unit
  /\ results' = <<>>
  /\ dirty' = (results # <<>>)
  /\ IF unit = Unparsable
     THEN /\ pc' = "returned"
          /\ caught' = "SyntaxError"
          /\ todo' = <<>>
     ELSE /\ pc' = "walk"
          /\ caught' = None
          /\ todo' = CallsOf(unit)
  /\ UNCHANGED <<tracer, call, analyzer, order, idx, taint, handled, result, prev, tracker>>

\* _visit_tree: the next Call node of ast.walk goes through _analyze_call,
\* whose except clause keeps an exception from leaving it.
SimpleAnalyzeCall ==
  /\ analyzer = "SimplePythonAnalyzer"
  /\ pc = "walk"
  /\ todo # <<>>
  /\ LET after == _analyze_call(results, Head(todo).node, Head(todo).line, order)
     IN /\ results' = after.results
        /\ caught' = IF after.caught THEN "RecursionError" ELSE caught
  /\ todo' = Tail(todo)
  /\ UNCHANGED <<tracer, call, analyzer, order, code, pc, idx, taint, handled, result, prev, dirty, tracker>>

\* return self.results
SimpleReturn ==
  /\ analyzer = "SimplePythonAnalyzer"
  /\ pc = "walk"
  /\ todo = <<>>
  /\ pc' = "returned"
  /\ UNCHANGED <<tracer, call, analyzer, order, code, idx, taint, handled, caught, result, prev, dirty, simple,
                 tracker>>

\* AdvancedTaintTracker.analyze_project up to the loop over os.walk
AnalyzeProject(listing) ==
  /\ analyzer = "AdvancedTaintTracker"
  /\ pc \in {"idle", "returned"}
  /\ project' = listing
  /\ per_file_results' = <<>>
  /\ summary' = NoSummary
  /\ idx' = 1
  /\ pc' = "files"
  /\ UNCHANGED <<tracer, call, analyzer, order, code, taint, handled, caught, result, prev, dirty, simple>>

\* One file of the walk: a .py file is analyzed by a new TaintAnalyzer and
\* its result kept when it is not the empty dict.
AnalyzeFile ==
  /\ analyzer = "AdvancedTaintTracker"
  /\ pc = "files"
  /\ idx <= Len(project)
  /\ IF project[idx].py
     THEN \E report \in TA_analyze_file(project[idx].content) :
            per_file_results' =
              IF report # EmptyReport
              THEN Append(per_file_results, [filepath |-> idx, result |-> report])
              ELSE per_file_results
     ELSE per_file_results' = per_file_results
  /\ idx' = idx + 1
  /\ UNCHANGED <<tracer, call, analyzer, order, code, pc, taint, handled, caught, result, prev, dirty, simple,
                 project, summary>>

\* The dict analyze_project returns, with its summary.
Summarize ==
  /\ analyzer = "AdvancedTaintTracker"
  /\ pc = "files"
  /\ idx > Len(project)
  /\ summary' = _generate_project_summary(per_file_results)
  /\ pc' = "returned"
  /\ UNCHANGED <<tracer, call, analyzer, order, code, idx, taint, handled, caught, result, prev, dirty, simple,
                 project, per_file_results>>

Next ==
  \/ \E unit \in Units : AnalyzeCode(unit)
  \/ VisitStatement
  \/ ProcessDirect
  \/ GenerateReport
  \/ \E unit \in Units : TA_AnalyzeCode(unit)
  \/ TA_VisitStatement
  \/ TA_GenerateReport
  \/ \E unit \in Units : SimpleAnalyzeCode(unit)
  \/ SimpleAnalyzeCall
  \/ SimpleReturn
  \/ \E listing \in Projects : AnalyzeProject(listing)
  \/ AnalyzeFile
  \/ Summarize

Spec == Init /\ [][Next]_vars

\* ------------------------------------- trace and mark, one call on a store
\* An instance of one of the two taint analyzers whose containers are what
\* a traversal has left, before a call of _trace_taint_path or of the
\* marking method.
StoreInit ==
  /\ analyzer \in {"FixedTaintAnalyzer", "TaintAnalyzer"}
  /\ order = DANGEROUS_FUNCTIONS
  /\ code = NoNode
  /\ pc = "store"
  /\ idx = 0
  /\ \E st \in Stores(analyzer) :
       /\ tainted_vars = st.tainted_vars
       /\ vulnerability_paths = st.vulnerability_paths
       /\ propagation_graph = st.propagation_graph
       /\ direct_source_nodes = st.direct_source_nodes
  /\ caught = None
  /\ result = NoReport
  /\ prev = NoReport
  /\ dirty = FALSE
  /\ results = <<>>
  /\ todo = <<>>
  /\ project = <<>>
  /\ per_file_results = <<>>
  /\ summary = NoSummary
  /\ start_var = <<>>
  /\ path = <<>>
  /\ visited = {}
  /\ current = <<>>
  /\ steps = 0
  /\ call = NoCall
  /\ handled = <<>>

\* FixedTaintAnalyzer._trace_taint_path up to its loop: the empty list for
\* a name without a record.
TraceStart(name) ==
  /\ analyzer = "FixedTaintAnalyzer"
  /\ pc = "store"
  /\ start_var' = name
  /\ visited' = {}
  /\ steps' = 0
  /\ IF ~Tainted(tainted_vars, name)
     THEN /\ path' = <<>>
          /\ current' = <<>>
          /\ pc' = "traced"
     ELSE /\ path' = <<name>>
          /\ current' = name
          /\ pc' = "trace"
  /\ UNCHANGED <<call, analyzer, order, code, idx, taint, handled, caught, result, prev, dirty, simple,
                 tracker>>

\* The loop following the last entry of the sources list, not the first.
TraceStep_last_source ==
  /\ analyzer = "FixedTaintAnalyzer"
  /\ pc = "trace"
  /\ IF Tainted(tainted_vars, current) /\ current \notin visited
     THEN LET var == Var(tainted_vars, current)
              next_var == var.sources[Len(var.sources)]
          IN /\ visited' = visited \cup {current}
             /\ IF var.sources # <<>> /\ next_var \notin visited'
                THEN /\ path' = <<next_var>> \o path
                     /\ current' = next_var
                     /\ steps' = steps + 1
                     /\ pc' = "trace"
                ELSE /\ pc' = "traced"
                     /\ UNCHANGED <<path, current, steps>>
     ELSE /\ pc' = "traced"
          /\ UNCHANGED <<path, visited, current, steps>>
  /\ UNCHANGED <<start_var, call, analyzer, order, code, idx, taint, handled, caught, result, prev,
                 dirty, simple, tracker>>

\* One test and one iteration of the while loop of
\* FixedTaintAnalyzer._trace_taint_path; leaving the loop returns path.
TraceStep ==
  /\ analyzer = "FixedTaintAnalyzer"
  /\ pc = "trace"
  /\ IF Tainted(tainted_vars, current) /\ current \notin visited
     THEN LET var == Var(tainted_vars, current)
              next_var == var.sources[1]
          IN /\ visited' = visited \cup {current}
             /\ IF var.sources # <<>> /\ next_var \notin visited'
                THEN /\ path' = <<next_var>> \o path
                     /\ current' = next_var
                     /\ steps' = steps + 1
                     /\ pc' = "trace"
                ELSE /\ pc' = "traced"
                     /\ UNCHANGED <<path, current, steps>>
     ELSE /\ pc' = "traced"
          /\ UNCHANGED <<path, visited, current, steps>>
  /\ UNCHANGED <<start_var, call, analyzer, order, code, idx, taint, handled, caught, result, prev,
                 dirty, simple, tracker>>

\* TaintAnalyzer._trace_taint_path up to its loop
TA_TraceStart(name) ==
  /\ analyzer = "TaintAnalyzer"
  /\ pc = "store"
  /\ start_var' = name
  /\ path' = <<name>>
  /\ current' = name
  /\ steps' = 0
  /\ pc' = "trace"
  /\ UNCHANGED <<visited, call, analyzer, order, code, idx, taint, handled, caught, result, prev, dirty,
                 simple, tracker>>

\* The loop without its break on a name that is already in path.
TA_TraceStep_no_break ==
  /\ analyzer = "TaintAnalyzer"
  /\ pc = "trace"
  /\ IF Tainted(tainted_vars, current) /\ Var(tainted_vars, current).sources # <<>>
     THEN LET next_var == Var(tainted_vars, current).sources[1]
          IN /\ current' = next_var
             /\ pc' = "trace"
             /\ IF next_var \notin Range(path)
                THEN /\ path' = <<next_var>> \o path
                     /\ steps' = steps + 1
                ELSE UNCHANGED <<path, steps>>
     ELSE /\ pc' = "traced"
          /\ UNCHANGED <<path, current, steps>>
  /\ UNCHANGED <<start_var, visited, call, analyzer, order, code, idx, taint, handled, caught, result,
                 prev, dirty, simple, tracker>>

\* One test and one iteration of the while loop of
\* TaintAnalyzer._trace_taint_path; leaving the loop returns path.
TA_TraceStep ==
  /\ analyzer = "TaintAnalyzer"
  /\ pc = "trace"
  /\ IF Tainted(tainted_vars, current) /\ Var(tainted_vars, current).sources # <<>>
     THEN LET next_var == Var(tainted_vars, current).sources[1]
          IN /\ current' = next_var
             /\ IF next_var \notin Range(path)
                THEN /\ path' = <<next_var>> \o path
                     /\ steps' = steps + 1
                     /\ pc' = "trace"
                ELSE /\ pc' = "traced"
                     /\ UNCHANGED <<path, steps>>
     ELSE /\ pc' = "traced"
          /\ UNCHANGED <<path, current, steps>>
  /\ UNCHANGED <<start_var, visited, call, analyzer, order, code, idx, taint, handled, caught, result,
                 prev, dirty, simple, tracker>>

\* The line a mark call is made for, after every line of the store.
MarkLine == MaxMarks + 2

\* One call of _mark_as_tainted, or of _create_or_update_tainted_var by a
\* TaintAnalyzer, as visit_Assign makes it: type PROPAGATED, and for
\* sources a non-empty list of names with a record.
MarkAsTainted(var_name, sources) ==
  /\ pc = "store"
  /\ sources \in CallerSources(analyzer, tainted_vars)
  /\ call' = [var_name |-> var_name, line |-> MarkLine, taint_type |-> PROPAGATED,
              sources |-> sources, before |-> tainted_vars]
  /\ Store(IF analyzer = "FixedTaintAnalyzer"
           THEN _mark_as_tainted(Self, var_name, MarkLine, PROPAGATED, sources)
           ELSE _create_or_update_tainted_var(Self, var_name, MarkLine, PROPAGATED, sources))
  /\ pc' = "marked"
  /\ UNCHANGED <<tracer, analyzer, order, code, idx, caught, result, prev, dirty, simple,
                 tracker>>

StoreNext ==
  \/ \E name \in StoreNames : TraceStart(name)
  \/ TraceStep
  \/ \E name \in StoreNames : TA_TraceStart(name)
  \/ TA_TraceStep
  \/ \E var_name \in StoreNames : \E sources \in UNION {[1..n -> StoreNames] : n \in 1..2} :
       MarkAsTainted(var_name, sources)

\* The loops run to their end once entered.
StoreSpec ==
  StoreInit /\ [][StoreNext]_vars /\ WF_vars(TraceStep) /\ WF_vars(TA_TraceStep)

\* ------------------------------------------------------------ properties
\* A call of a FixedTaintAnalyzer on a source text has returned.
Done(unit) == analyzer = "FixedTaintAnalyzer" /\ pc = "returned" /\ code = unit

\* C1: analyzing  x = input(); os.system(x)  yields exactly the one path
\* ["x", "os.system(arg0)"], and x is recorded as user input without sources.
C1_ScenarioA ==
  Done(ScenarioA) =>
    /\ result.vulnerability_paths = << <<<<"x">>, <<"o","s",".","s","y","s","t","e","m","(","a","r","g","0",")">>>> >>
    /\ Tainted(tainted_vars, <<"x">>)
    /\ Var(tainted_vars, <<"x">>).type = USER_INPUT
    /\ Var(tainted_vars, <<"x">>).sources = <<>>

\* The analysis of scenario A has returned a report with a path.
C1_Witness == Done(ScenarioA) /\ Len(result.vulnerability_paths) = 1

\* C2: analyzing  cmd = input(); clean = cmd.strip(); os.system(clean)  leaves
\* clean propagated with sources exactly [cmd], the edge cmd -> clean, and
\* exactly the one path ["cmd", "clean", "os.system(arg0)"].
C2_ScenarioB ==
  Done(ScenarioB) =>
    /\ Tainted(tainted_vars, <<"c","l","e","a","n">>)
    /\ Var(tainted_vars, <<"c","l","e","a","n">>).type = PROPAGATED
    /\ Var(tainted_vars, <<"c","l","e","a","n">>).sources = <<<<"c","m","d">>>>
    /\ GraphEdges(propagation_graph) = << <<<<"c","m","d">>, <<"c","l","e","a","n">>>> >>
    /\ result.graph_edges = << <<<<"c","m","d">>, <<"c","l","e","a","n">>>> >>
    /\ result.vulnerability_paths = << <<<<"c","m","d">>, <<"c","l","e","a","n">>, <<"o","s",".","s","y","s","t","e","m","(","a","r","g","0",")">>>> >>

\* The analysis of scenario B has returned with clean recorded.
C2_Witness == Done(ScenarioB) /\ Len(tainted_vars) = 2 /\ result.sinks_found = 1

\* C3: analyzing  eval(input())  yields exactly one path, of length 2, from
\* the placeholder bound to the input() call to "eval(arg0)"; the traversal
\* leaves no path, the pass over the placeholders after it adds this one.
C3_ScenarioC ==
  /\ (analyzer = "FixedTaintAnalyzer" /\ pc = "direct" /\ code = ScenarioC) =>
       /\ vulnerability_paths = <<>>
       /\ Len(direct_source_nodes) = 1
       /\ direct_source_nodes[1].node = input_call
  /\ Done(ScenarioC) =>
       /\ Len(result.vulnerability_paths) = 1
       /\ Len(result.vulnerability_paths[1]) = 2
       /\ Len(direct_source_nodes) = 1
       /\ result.vulnerability_paths[1][1] = direct_source_nodes[1].temp_var
       /\ IsPlaceholder(result.vulnerability_paths[1][1])
       /\ result.vulnerability_paths[1][2] = <<"e","v","a","l","(","a","r","g","0",")">>

\* The analysis of scenario C has returned the placeholder path.
C3_Witness ==
  /\ Done(ScenarioC)
  /\ Len(result.vulnerability_paths) = 1
  /\ IsPlaceholder(result.vulnerability_paths[1][1])

\* C4: analyzing  def f(user_data): os.system(user_data)  registers user_data
\* as parameter-tainted and yields exactly one path, user_data followed by the
\* os.system sink label.
C4_ScenarioE ==
  (analyzer \in {"FixedTaintAnalyzer", "TaintAnalyzer"} /\ pc = "returned" /\ code = ScenarioE) =>
    /\ Tainted(tainted_vars, <<"u","s","e","r","_","d","a","t","a">>)
    /\ Var(tainted_vars, <<"u","s","e","r","_","d","a","t","a">>).type = PARAMETER
    /\ Len(result.vulnerability_paths) = 1
    /\ Len(result.vulnerability_paths[1]) = 2
    /\ result.vulnerability_paths[1][1] = <<"u","s","e","r","_","d","a","t","a">>
    /\ StartsWith(result.vulnerability_paths[1][2], <<"o","s",".","s","y","s","t","e","m","(">>)

\* FixedTaintAnalyzer has returned for scenario E without a record or a path.
C4_Witness == Done(ScenarioE) /\ tainted_vars = <<>> /\ result.vulnerability_paths = <<>>

\* A path or finding names os.path.join or print.
NamesJoinOrPrint(label) ==
  \/ StartsWith(label, <<"o","s",".","p","a","t","h",".","j","o","i","n">>)
  \/ StartsWith(label, <<"p","r","i","n","t">>)

\* C5: os.path.join(a, b) and print(x) give no vulnerability path and no
\* dangerous-call finding, whatever is tainted: neither name is a sink.
C5_NoFindings ==
  /\ _is_sink_function(<<"o","s",".","p","a","t","h",".","j","o","i","n">>) = None
  /\ _is_sink_function(<<"p","r","i","n","t">>) = None
  /\ ~_is_dangerous_function(<<"o","s",".","p","a","t","h",".","j","o","i","n">>, order)
  /\ ~_is_dangerous_function(<<"p","r","i","n","t">>, order)
  /\ \A i \in 1..Len(vulnerability_paths) :
       ~NamesJoinOrPrint(vulnerability_paths[i][Len(vulnerability_paths[i])])
  /\ \A i \in 1..Len(results) : ~NamesJoinOrPrint(results[i].function_name)
  /\ (pc = "returned" /\ code = ScenarioD) =>
       vulnerability_paths = <<>> /\ results = <<>>
  /\ Done(ScenarioD) => result.vulnerability_paths = <<>>

\* Scenario D has been analyzed with a, b and x tainted.
C5_Witness ==
  /\ Done(ScenarioD)
  /\ \A v \in {<<"a">>, <<"b">>, <<"x">>} : Tainted(tainted_vars, v)

\* C6: two runs on the same source text return identical reports: the same
\* paths with the same placeholder names, the same edges, the same chains.
C6_Deterministic ==
  (analyzer = "FixedTaintAnalyzer" /\ pc = "returned" /\ prev # NoReport) => result = prev

\* The second of two runs on one text has returned a different report.
C6_Witness ==
  /\ analyzer = "FixedTaintAnalyzer" /\ pc = "returned" /\ prev # NoReport
  /\ result.vulnerability_paths # prev.vulnerability_paths

\* C7: an exception raised while one node is processed is handled at that
\* node; the traversal goes on and the run returns a full report with the
\* findings of the other nodes.
C7_LocalRecovery ==
  (pc = "returned" /\ caught = "RecursionError") =>
    IF analyzer = "SimplePythonAnalyzer"
    THEN code = DeepCall => \E i \in 1..Len(results) : results[i].line = 2
    ELSE /\ ~result.empty
         /\ result.vulnerability_paths = vulnerability_paths
         /\ code \in {DeepUnit, DeepCall} =>
              \E i \in 1..Len(result.vulnerability_paths) :
                result.vulnerability_paths[i][1] = <<"x">>

\* FixedTaintAnalyzer has returned the empty dict although it had found a path.
C7_Witness ==
  /\ Done(DeepUnit) /\ caught = "RecursionError"
  /\ result = EmptyReport /\ vulnerability_paths # <<>>

\* C8: when the text cannot be parsed, analyze_code returns the empty report
\* and the taint store, the graph, the path list and the placeholder map are
\* empty, whatever the run before had left in them.
C8_ParseFailure ==
  (pc = "returned" /\ caught = "SyntaxError") =>
    /\ code = Unparsable
    /\ analyzer \in {"FixedTaintAnalyzer", "TaintAnalyzer"} =>
         result = EmptyReport /\ Self = EmptyState
    /\ analyzer = "SimplePythonAnalyzer" => results = <<>>

\* A parse failure on an instance whose run before had left records.
C8_Witness ==
  /\ analyzer = "FixedTaintAnalyzer" /\ pc = "returned" /\ caught = "SyntaxError"
  /\ dirty /\ result = EmptyReport

\* The files of the project whose analysis fails.
Fails(file) == file.content \in {Unreadable, Unparsable, DeepUnit}

\* C9: in analyze_project a file whose analysis fails gets no entry, every
\* other .py file gets one, total_files is the number of entries and
\* files_with_vulns is at most total_files.
C9_ProjectFailures ==
  (analyzer = "AdvancedTaintTracker" /\ pc = "returned") =>
    /\ \A i \in 1..Len(project) :
         (\E k \in 1..Len(per_file_results) : per_file_results[k].filepath = i)
           <=> (project[i].py /\ ~Fails(project[i]))
    /\ \A k \in 1..Len(per_file_results) :
         per_file_results[k].result \in TA_analyze_file(project[per_file_results[k].filepath].content)
    /\ summary.total_files = Len(per_file_results)
    /\ summary.files_with_vulns <= summary.total_files

\* A project with a failing file before a file with a vulnerability.
C9_Witness ==
  /\ analyzer = "AdvancedTaintTracker" /\ pc = "returned"
  /\ \E i, j \in 1..Len(project) :
       /\ i < j
       /\ project[i].py /\ Fails(project[i])
       /\ project[j].py /\ ~Fails(project[j])
  /\ summary.files_with_vulns = 1

\* C10: a call on an instance that has run before returns what a new
\* instance may return for the text, and starts from empty containers.
C10_ResetEquivalence ==
  /\ (analyzer = "FixedTaintAnalyzer" /\ pc = "visit" /\ idx = 1) => Self = EmptyState
  /\ (analyzer = "FixedTaintAnalyzer" /\ pc = "returned" /\ dirty) =>
       result \in analyze_code(code)

\* A second call has returned a report with a path after a first run that
\* left records of another text.
C10_Witness ==
  /\ Done(ScenarioA) /\ dirty /\ prev = NoReport
  /\ Len(result.vulnerability_paths) = 1

\* The statements of a source text holding a sink call a path label names.
SinkLines(label, tree) ==
  {i \in 1..Len(tree[2]) :
     \E k \in 1..Len(CallsOf(tree[2][i])) :
       LET func_name == _get_full_function_name(CallsOf(tree[2][i])[k].node[2])
       IN /\ _is_sink_function(func_name) # None
          /\ StartsWith(label, func_name \o <<"(","a","r","g">>)}

\* The sink label of a path.
Label(vulnerability_path) == vulnerability_path[Len(vulnerability_path)]

\* C11: the path list is in traversal order: the paths of a sink call the
\* traversal reaches first come first, those of inline source calls too, and
\* within one sink call the paths of argument i come before those of j > i.
C11_TraversalOrder ==
  (analyzer = "FixedTaintAnalyzer" /\ pc = "returned" /\ ~result.empty) =>
    /\ \A i, j \in 1..Len(result.vulnerability_paths) :
         i < j =>
           \E li \in SinkLines(Label(result.vulnerability_paths[i]), code) :
             \E lj \in SinkLines(Label(result.vulnerability_paths[j]), code) : li <= lj
    /\ code = TwoArguments =>
         result.vulnerability_paths =
           << <<<<"y">>, <<"o","s",".","s","y","s","t","e","m","(","a","r","g","0",")">>>>, <<<<"x">>, <<"o","s",".","s","y","s","t","e","m","(","a","r","g","1",")">>>> >>

\* The path of eval(input()) on line 2 is reported after that of line 3.
C11_Witness ==
  /\ Done(InlineThenSink)
  /\ Len(result.vulnerability_paths) = 2
  /\ result.vulnerability_paths[1] = <<<<"x">>, <<"o","s",".","s","y","s","t","e","m","(","a","r","g","0",")">>>>
  /\ IsPlaceholder(result.vulnerability_paths[2][1])

\* C12: no record's sources list holds the record's own name, whatever
\* assignments, propagator calls and augmented assignments the run has seen.
C12_NoSelfLoop ==
  \A i \in 1..Len(tainted_vars) :
    tainted_vars[i].name \notin Range(tainted_vars[i].sources)

\* x = x.strip() with x tainted has made x a source of itself.
C12_Witness ==
  /\ Done(SelfAssign)
  /\ Var(tainted_vars, <<"x">>).sources = <<<<"x">>>>
  /\ GraphEdges(propagation_graph) = << <<<<"x">>, <<"x">>>> >>

\* C13: both ends of every propagation edge are names with a record in the
\* store, in every state of a run.
C13_EdgeEndsRecorded ==
  \A i \in 1..Len(propagation_graph) :
    /\ Tainted(tainted_vars, propagation_graph[i].key)
    /\ \A target \in Range(propagation_graph[i].targets) : Tainted(tainted_vars, target)

\* The traversal of scenario B has added the edge cmd -> clean.
C13_Witness ==
  /\ analyzer = "FixedTaintAnalyzer" /\ pc = "visit" /\ code = ScenarioB /\ idx = 3
  /\ GraphEdges(propagation_graph) = << <<<<"c","m","d">>, <<"c","l","e","a","n">>>> >>

\* C14: the propagation graph and the sources lists say the same: u -> v is
\* an edge exactly when u is in the sources of v's record, in every state of
\* a run, also after v is assigned from a new source call.
C14_GraphMatchesSources ==
  /\ \A i \in 1..Len(propagation_graph) :
       \A target \in Range(propagation_graph[i].targets) :
         /\ Tainted(tainted_vars, target)
         /\ propagation_graph[i].key \in Range(Var(tainted_vars, target).sources)
  /\ \A v \in 1..Len(tainted_vars) :
       \A u \in Range(tainted_vars[v].sources) :
         \E i \in 1..Len(propagation_graph) :
           /\ propagation_graph[i].key = u
           /\ tainted_vars[v].name \in Range(propagation_graph[i].targets)

\* b = input() has replaced the record of b and left the edge a -> b.
C14_Witness ==
  /\ Done(Reassign)
  /\ Var(tainted_vars, <<"b">>).sources = <<>>
  /\ GraphEdges(propagation_graph) = << <<<<"a">>, <<"b">>>> >>

\* A step of a running analyze_code keeps every name of the taint store.
KeepsRecords ==
  pc \in {"visit", "direct", "report"} =>
    \A i \in 1..Len(tainted_vars) : Tainted(tainted_vars', tainted_vars[i].name)

\* C15: a record is never deleted within a run: every name in the taint
\* store before a step of a running analyze_code is in the store after it,
\* also when the statement assigns the name from an untainted constant.
C15_NeverDeleted == [][KeepsRecords]_vars

\* x = input(); x = 1; os.system(x): x is still recorded and reported.
C15_Witness ==
  /\ Done(Untaint)
  /\ Tainted(tainted_vars, <<"x">>)
  /\ result.vulnerability_paths = << <<<<"x">>, <<"o","s",".","s","y","s","t","e","m","(","a","r","g","0",")">>>> >>

\* ------------------------------------------------ claims on trace and mark
\* Whether a list holds no element twice.
NoDuplicates(list) == \A i, j \in 1..Len(list) : list[i] = list[j] => i = j

C17_TraceShape ==
  (pc = "traced" /\ Tainted(tainted_vars, start_var)) =>
    /\ NoDuplicates(path)
    /\ path # <<>>
    /\ path[Len(path)] = start_var
    /\ \A i \in 1..(Len(path) - 1) :
         /\ Tainted(tainted_vars, path[i + 1])
         /\ Var(tainted_vars, path[i + 1]).sources # <<>>
         /\ path[i] = Var(tainted_vars, path[i + 1]).sources[1]
    /\ path = IF analyzer = "FixedTaintAnalyzer"
              THEN _trace_taint_path(tainted_vars, start_var)
              ELSE TA_trace_taint_path(tainted_vars, start_var)

\* A trace through a cycle of three names: the first source of the first
\* element is the start name again.
C17_Witness ==
  /\ analyzer = "FixedTaintAnalyzer"
  /\ pc = "traced"
  /\ Len(path) = 3
  /\ Var(tainted_vars, path[1]).sources # <<>>
  /\ Var(tainted_vars, path[1]).sources[1] = start_var

\* C18: a trace ends, in a store with a cycle or a self-reference too, and
\* makes at most as many backward steps as the store has names.
C18_TraceTerminates ==
  /\ [](steps <= Len(tainted_vars))
  /\ (pc = "trace") ~> (pc = "traced")

\* A TaintAnalyzer's trace that stopped on the name it started from, after
\* one step less than the store has names.
C18_Witness ==
  /\ analyzer = "TaintAnalyzer"
  /\ pc = "traced"
  /\ Len(tainted_vars) = 3
  /\ steps = 2
  /\ current = start_var

\* What trace returns for a name on the store of the running instance.
Trace(name) ==
  IF analyzer = "TaintAnalyzer" THEN TA_trace_taint_path(tainted_vars, name)
  ELSE _trace_taint_path(tainted_vars, name)

\* C19: in every store a run reaches, the trace of a tainted variable v
\* starts at a root, a variable with an empty sources list, or at v.
C19_TraceStartsAtRoot ==
  \A i \in 1..Len(tainted_vars) :
    LET v == tainted_vars[i].name
        first == Trace(v)[1]
    IN first = v \/ (Tainted(tainted_vars, first) /\ Var(tainted_vars, first).sources = <<>>)

\* x = input(); y = x; x = y; os.system(x): the reported path starts at y,
\* whose sources list is [x].
C19_Witness ==
  /\ Done(Cycle)
  /\ result.vulnerability_paths = << <<<<"y">>, <<"x">>, <<"o","s",".","s","y","s","t","e","m","(","a","r","g","0",")">>>> >>
  /\ Var(tainted_vars, <<"y">>).sources = <<<<"x">>>>
  /\ Var(tainted_vars, <<"x">>).sources = <<<<"y">>>>

\* The names the propagation graph has an edge from or to.
GraphNodes(graph) ==
  {graph[i].key : i \in 1..Len(graph)} \cup UNION {Range(graph[i].targets) : i \in 1..Len(graph)}

\* Whether the graph has the edge u -> v.
HasEdge(graph, u, v) ==
  \E i \in 1..Len(graph) : graph[i].key = u /\ v \in Range(graph[i].targets)

\* The maximal forward chains of the graph: the simple paths of more than
\* one name from a name without an incoming edge to a name without an
\* outgoing one.
MaximalChains(graph) ==
  LET nodes == GraphNodes(graph)
  IN {chain \in UNION {[1..n -> nodes] : n \in 2..Cardinality(nodes)} :
        /\ NoDuplicates(chain)
        /\ \A i \in 1..(Len(chain) - 1) : HasEdge(graph, chain[i], chain[i + 1])
        /\ \A u \in nodes : ~HasEdge(graph, u, chain[1])
        /\ \A v \in nodes : ~HasEdge(graph, chain[Len(chain)], v)}

\* C20: the propagation_chains of a report are exactly the maximal forward
\* chains of the propagation graph, each of them and nothing else; for the
\* diamond a -> b, a -> c, b -> d, c -> d both [a, b, d] and [a, c, d].
C20_AllMaximalChains ==
  (analyzer \in {"FixedTaintAnalyzer", "TaintAnalyzer"} /\ pc = "returned" /\ ~result.empty) =>
    Range(result.propagation_chains) = MaximalChains(propagation_graph)

\* a = input(); b = a; c = a; d = b; d = c: the graph is the diamond and
\* the one chain reported is [a, b, d].
C20_Witness ==
  /\ Done(Diamond)
  /\ GraphEdges(propagation_graph) =
       << <<<<"a">>, <<"b">>>>, <<<<"a">>, <<"c">>>>, <<<<"b">>, <<"d">>>>, <<<<"c">>, <<"d">>>> >>
  /\ result.propagation_chains = << <<<<"a">>, <<"b">>, <<"d">>>> >>

\* ------------------------------------- claims on classification and walking
\* The rule of the specification for sinks: the name is a table entry, or
\* its last segment is the last segment of a table entry with a dotted prefix.
SinkByRule(func_name) ==
  \E i \in 1..Len(sink_functions) :
    LET sink_func == sink_functions[i][1]
    IN \/ sink_func = func_name
       \/ /\ "." \in Range(sink_func)
          /\ Split(sink_func)[Len(Split(sink_func))] = BaseName(func_name)

\* C21: a name is classified as a sink exactly when it equals a sink table
\* entry or its last segment equals the last segment of an entry that has a
\* dotted prefix; obj.eval and foo.open are no sinks, a bare Popen is one.
C21_SinkClassification ==
  (analyzer = "FixedTaintAnalyzer" /\ pc \in {"visit", "direct", "report", "returned"}
     /\ code # Unparsable) =>
    \A k \in 1..Len(CallsOf(code)) :
      LET func_name == _get_full_function_name(CallsOf(code)[k].node[2])
      IN func_name # <<>> => ((_is_sink_function(func_name) # None) <=> SinkByRule(func_name))

\* x = input(); obj.eval(x); Popen(x): both calls are reported as sinks.
C21_Witness ==
  /\ Done(DottedSink)
  /\ result.vulnerability_paths =
       << <<<<"x">>, <<"o","b","j",".","e","v","a","l","(","a","r","g","0",")">>>>, <<<<"x">>, <<"P","o","p","e","n","(","a","r","g","0",")">>>> >>

RECURSIVE RootedInName(_)
\* Whether a callee is a bare name or an attribute chain rooted in a name.
RootedInName(func) ==
  IF IsName(func) THEN TRUE
  ELSE IF IsAttribute(func) THEN RootedInName(func[2])
  ELSE FALSE

\* The statement visited next is a call on an unresolvable callee, with
\* plain names for arguments, and its visit leaves the containers alone.
UnresolvedCallKeepsState ==
  (/\ analyzer = "FixedTaintAnalyzer"
   /\ pc = "visit"
   /\ Kind(code[2][idx]) = "Expr"
   /\ IsCall(code[2][idx][2])
   /\ ~RootedInName(code[2][idx][2][2])
   /\ \A i \in 1..Len(code[2][idx][2][3]) : IsName(code[2][idx][2][3][i]))
    => UNCHANGED <<tainted_vars, vulnerability_paths, propagation_graph, direct_source_nodes>>

\* C22: visiting a call whose callee is neither a bare name nor an
\* attribute chain rooted in a name, such as foo().system(x), creates no
\* record, no edge, no placeholder and no vulnerability path.
C22_UnresolvedNotClassified == [][UnresolvedCallKeepsState]_vars

\* x = input(); foo().system(x): the call is reported as the sink system.
C22_Witness ==
  /\ Done(UnresolvedSink)
  /\ result.vulnerability_paths = << <<<<"x">>, <<"s","y","s","t","e","m","(","a","r","g","0",")">>>> >>

\* How often an element occurs in a list.
Occurrences(list, e) == Cardinality({i \in 1..Len(list) : list[i] = e})

\* The Call nodes of a tree, as ast.walk lists them.
CallNodes(tree) == [k \in 1..Len(CallsOf(tree)) |-> CallsOf(tree)[k].node]

\* C23: a traversal that ends without an exception has invoked visit_Call
\* exactly once for every call expression of the tree, wherever it is
\* nested: in the receiver of an attribute access, in a function body.
C23_EveryCallHandledOnce ==
  (Done(code) /\ ~result.empty) =>
    /\ Len(handled) = Len(CallNodes(code))
    /\ \A k \in 1..Len(CallNodes(code)) :
         Occurrences(handled, CallNodes(code)[k]) =
           Occurrences(CallNodes(code), CallNodes(code)[k])

\* x = input().strip(); os.system(x): visit_Call ran for the strip call and
\* for os.system, never for input(), and x has no record.
C23_Witness ==
  /\ Done(ReceiverCall)
  /\ handled = << Call(Attribute(input_call, <<"s","t","r","i","p">>), <<>>), os_system(Name(<<"x">>)) >>
  /\ input_call \in Range(CallNodes(code))
  /\ tainted_vars = <<>>
  /\ result.vulnerability_paths = <<>>

\* Whether the parent of an inline source call is a sink call.
SinkParent(e) ==
  IsCall(e.parent) /\ _is_sink_function(_get_full_function_name(e.parent[2])) # None

\* The pass over the placeholders keeps the paths of the traversal and
\* appends one path per placeholder under a sink call, none for another;
\* no sources list and no edge names a placeholder.
DirectFixUp ==
  /\ pc = "direct" =>
       LET added == SubSeq(vulnerability_paths', Len(vulnerability_paths) + 1,
                           Len(vulnerability_paths'))
       IN /\ SubSeq(vulnerability_paths', 1, Len(vulnerability_paths)) = vulnerability_paths
          /\ \A i \in 1..Len(direct_source_nodes) :
               LET e == direct_source_nodes[i]
                   label == _get_full_function_name(e.parent[2]) \o <<"(","a","r","g","0",")">>
               IN /\ Cardinality({k \in 1..Len(added) : added[k][1] = e.temp_var}) =
                       IF SinkParent(e) THEN 1 ELSE 0
                  /\ SinkParent(e) => <<e.temp_var, label>> \in Range(added)
          /\ \A k \in 1..Len(added) :
               \E i \in 1..Len(direct_source_nodes) :
                 added[k][1] = direct_source_nodes[i].temp_var
  /\ \A i \in 1..Len(tainted_vars) :
       \A source \in Range(tainted_vars[i].sources) : ~IsPlaceholder(source)
  /\ \A i \in 1..Len(propagation_graph) :
       /\ ~IsPlaceholder(propagation_graph[i].key)
       /\ \A target \in Range(propagation_graph[i].targets) : ~IsPlaceholder(target)

\* C24: the pass after the traversal appends exactly one path
\* [placeholder, sink(arg0)] for every placeholder whose parent is a sink
\* call and nothing for any other placeholder, and no placeholder is ever
\* in a sources list or a propagation edge.
C24_DirectFixUp == [][DirectFixUp]_vars

\* foo(input()); eval(input()): two placeholders, one path, for the second.
C24_Witness ==
  /\ Done(InlineMixed)
  /\ Len(direct_source_nodes) = 2
  /\ ~SinkParent(direct_source_nodes[1])
  /\ result.vulnerability_paths = << <<direct_source_nodes[2].temp_var, <<"e","v","a","l","(","a","r","g","0",")">>>> >>

\* A sink before the source of its argument:  os.system(x); x = input()
SinkFirst ==
  Module(<< Expr(os_system(Name(<<"x">>))), Assign(<<Name(<<"x">>)>>, input_call) >>)

\* The statement visited next is a sink call on plain names: the paths it
\* adds are for the arguments that have a record when it is reached, one
\* path each, and for no other argument.
SinkSeesRecordsSoFar ==
  (/\ analyzer = "FixedTaintAnalyzer"
   /\ pc = "visit"
   /\ Kind(code[2][idx]) = "Expr"
   /\ IsCall(code[2][idx][2])
   /\ _is_sink_function(_get_full_function_name(code[2][idx][2][2])) # None
   /\ \A i \in 1..Len(code[2][idx][2][3]) : IsName(code[2][idx][2][3][i]))
    => LET args == code[2][idx][2][3]
           func_name == _get_full_function_name(code[2][idx][2][2])
           added == SubSeq(vulnerability_paths', Len(vulnerability_paths) + 1,
                           Len(vulnerability_paths'))
           For(i) == {k \in 1..Len(added) :
                        /\ Len(added[k]) >= 2
                        /\ added[k][Len(added[k])] = func_name \o <<"(","a","r","g">> \o Str(i - 1) \o <<")">>
                        /\ added[k][Len(added[k]) - 1] = args[i][2]}
       IN /\ SubSeq(vulnerability_paths', 1, Len(vulnerability_paths)) = vulnerability_paths
          /\ \A i \in 1..Len(args) :
               Cardinality(For(i)) = IF Tainted(tainted_vars, args[i][2]) THEN 1 ELSE 0
          /\ \A k \in 1..Len(added) : \E i \in 1..Len(args) : k \in For(i)

\* C25: a sink call produces a path for a variable exactly when the
\* variable has a record at the time the traversal reaches the call: none
\* for os.system(y); y = input(), one after y = input(); y = 1.
C25_TextualOrder ==
  /\ [][SinkSeesRecordsSoFar]_vars
  /\ [](Done(SinkFirst) => result.vulnerability_paths = <<>>)
  /\ [](Done(Untaint) => result.vulnerability_paths = << <<<<"x">>, <<"o","s",".","s","y","s","t","e","m","(","a","r","g","0",")">>>> >>)

\* os.system(x); x = input(): x has a record at the end and no path.
C25_Witness ==
  /\ Done(SinkFirst)
  /\ Tainted(tainted_vars, <<"x">>)
  /\ result.vulnerability_paths = <<>>
  /\ handled = <<os_system(Name(<<"x">>)), input_call>>

\* C26: the SimplePythonAnalyzer takes every call of the os.spawn family
\* (os.spawnlp) for dangerous, and the verdict of _is_dangerous_function on a
\* name is the same in every iteration order of DANGEROUS_FUNCTIONS.
C26_SpawnFamilyOrderFree ==
  (analyzer = "SimplePythonAnalyzer" /\ pc \in {"walk", "returned"} /\ code # Unparsable) =>
    \A k \in 1..Len(CallNodes(code)) :
      LET func_name == _get_function_name(CallNodes(code)[k][2])
      IN func_name # <<>> =>
           /\ \A other \in IterationOrders :
                _is_dangerous_function(func_name, other) = _is_dangerous_function(func_name, order)
           /\ StartsWith(func_name, <<"o","s",".","s","p","a","w","n">>) => _is_dangerous_function(func_name, order)

\* os.spawnlp(os.P_WAIT, "ls", "ls") analyzed in an order that meets
\* os.system before os.spawn: nothing is found.
C26_Witness ==
  /\ analyzer = "SimplePythonAnalyzer"
  /\ pc = "returned"
  /\ code = SpawnCall
  /\ results = <<>>
  /\ order[1] = <<"o","s",".","s","y","s","t","e","m">>

\* C27: the report a run returned keeps its values when the same instance
\* starts another run: while the next run of the same text is under way the
\* caller still reads in it the path list, the edge list and the source
\* records it was returned with.
C27_ReportKept ==
  (/\ analyzer \in {"FixedTaintAnalyzer", "TaintAnalyzer"}
   /\ pc \in {"visit", "direct", "report"}
   /\ prev # NoReport)
    => /\ result.vulnerability_paths = prev.vulnerability_paths
       /\ result.graph_edges = prev.graph_edges
       /\ result.sources_found = prev.sources_found

\* A second run of  x = input(); os.system(x)  has begun: the report of
\* the first run has lost its path and kept its source records.
C27_Witness ==
  /\ analyzer = "FixedTaintAnalyzer"
  /\ pc = "visit"
  /\ idx = 1
  /\ code = ScenarioA
  /\ prev.vulnerability_paths = << <<<<"x">>, <<"o","s",".","s","y","s","t","e","m","(","a","r","g","0",")">>>> >>
  /\ result.vulnerability_paths = <<>>
  /\ result.sources_found = prev.sources_found
  /\ result.sources_found # <<>>

\* The kind the sink table of the TaintAnalyzer gives the sink of a path,
\* whose label is the sink name followed by "()".
TableKind(vulnerability_path) ==
  LET label == vulnerability_path[Len(vulnerability_path)]
  IN _get_vulnerability_type(SubSeq(label, 1, Len(label) - 2))

RECURSIVE PathsOfKind(_, _)
\* The number of paths of every file result whose sink is of a kind.
PathsOfKind(file_results, kind) ==
  IF file_results = <<>> THEN 0
  ELSE Cardinality({i \in 1..Len(Head(file_results).result.vulnerability_paths) :
                      TableKind(Head(file_results).result.vulnerability_paths[i]) = kind})
       + PathsOfKind(Tail(file_results), kind)

====
